---- MODULE Spec2Model ----
(***************************************************************************)
(* Model of scripts/initialize_data.py: the transform-and-load engine that *)
(* copies people, movies and seasons from the document store into the      *)
(* relational store, with one savepoint per document and one commit per    *)
(* batch, and mirrors loaded movies to the search index and the cache.     *)
(*                                                                         *)
(* Optional values are sequences of length at most one: None is <<>> and   *)
(* Some(v) is <<v>>.  Text is a sequence of one-character strings.         *)
(***************************************************************************)
EXTENDS Integers, Sequences, FiniteSets, Bags, TLC

VARIABLES
    pc,         \* position of seed_from_mongo / process_*_batch
    doc,        \* the document the loader is working on
    db,         \* tables as seen inside the open transaction
    durable,    \* tables as of the last successful commit
    sp,         \* snapshot taken by SAVEPOINT (None when no savepoint is open)
    aborted,    \* the transaction is in the failed state (a statement raised)
    seq,        \* serial sequences of the store (never rolled back)
    cache,      \* PgRepo._cache and PgRepo._person_cache
    stats,      \* PgRepo.stats
    es,         \* EsRepo: client, _buffer, and what reached the index
    redis,      \* RedisRepo: client, pipeline, and what reached the cache
    loop,       \* local variables of the stage loops and of process_*_batch
    hist,       \* history: ids returned by resolvers, rows created, commit failures
    shadow      \* the same run with the documents that raise left out

vars == <<pc, doc, db, durable, sp, aborted, seq, cache, stats, es, redis, loop, hist, shadow>>

----------------------------------------------------------------------------
(* Bounds of the model *)

MaxMovieDocs == 2
MaxPeopleDocs == 3
MaxSeasonDocs == 3
MaxBatchSize == 2
MaxCommitInterval == 2
ES_BULK_SIZE == 2
REDIS_PIPELINE_SIZE == 2

(* Program constants *)

TRENDING_MIN_RATING == 7
TRENDING_MIN_YEAR == 2024
ALWAYS_CACHE_RECENT == TRUE
MaxCountryName == 100
MaxPersonName == 200
MaxTitle == 500

----------------------------------------------------------------------------
(* Optional values and text *)

None == <<>>
Some(v) == <<v>>
Val(o) == o[1]

\* Python truthiness of an optional integer: None and 0 are falsy
Falsy(o) == o = None \/ Val(o) = 0

RECURSIVE lstrip(_)
lstrip(s) == IF s # <<>> /\ Head(s) = " " THEN lstrip(Tail(s)) ELSE s

RECURSIVE rstrip(_)
rstrip(s) == IF s # <<>> /\ s[Len(s)] = " " THEN rstrip(SubSeq(s, 1, Len(s) - 1)) ELSE s

strip(s) == rstrip(lstrip(s))

normalize_text(value) ==
    IF value = None THEN None
    ELSE LET s == strip(Val(value)) IN IF s # <<>> THEN Some(s) ELSE None

truncate_text(value, max_length) ==
    IF value = None THEN None
    ELSE IF Len(Val(value)) > max_length THEN Some(SubSeq(Val(value), 1, max_length)) ELSE value

\* a or b or c of the source, on optional values that are never the empty text
WorldFirst(a, b) == IF b # None THEN b ELSE a

OrElse(a, b) == IF a # None THEN a ELSE b

----------------------------------------------------------------------------
(* The relational store and the repository object, as one context record   *)
(* threaded through the calls of one document's write sequence:            *)
(*   db, seq, aborted  the store;  cache, stats  the PgRepo object;        *)
(*   exc  the exception in flight ("none" when there is none);             *)
(*   ret  the value returned by the last call;                             *)
(*   fired  whether a statement was rejected because of the document's     *)
(*          own content;  hist  the history variable.                      *)
(***************************************************************************)

NoExc == "none"

\* a statement the store rejects: the transaction enters the failed state
RaiseDb(c) == [c EXCEPT !.exc = "db", !.aborted = TRUE, !.ret = None]

\* an exception raised by the client code, no statement involved
RaisePy(c) == [c EXCEPT !.exc = "py", !.ret = None]

Return(c, v) == [c EXCEPT !.ret = v]

\* history of the resolvers: every (kind, natural key, id) returned, every row created
NoteReturn(c, kind, key, id) == [c EXCEPT !.hist.returned = @ \cup {<<kind, key, id>>}]
NoteCreated(c, kind, key, id) == [c EXCEPT !.hist.created = @ \cup {<<kind, key, id>>}]

\* the resolver does not remember the id it returned
ForgetPut(f, k, v) == f

\* a finite map with one more entry
Put(f, k, v) == (k :> v) @@ f

PickRow(rows) == CHOOSE r \in rows : TRUE

\* get_or_create_country and get_or_create_genre: the same code on two tables
GetOrCreateNamed(c, tbl, stat, name_in) ==
    LET name == Val(truncate_text(Some(strip(name_in)), MaxCountryName)) IN
    IF c.exc # NoExc THEN c
    ELSE IF name = <<>> THEN Return(c, None)
    ELSE IF name \in DOMAIN c.cache[tbl]
        THEN NoteReturn(Return(c, Some(c.cache[tbl][name])), tbl, name, c.cache[tbl][name])
    ELSE IF c.aborted THEN RaiseDb(c)
    ELSE LET found == {r \in c.db[tbl] : r.name = name} IN
        IF found # {} /\ PickRow(found).id # 0
        THEN LET id == PickRow(found).id IN
             NoteReturn(Return([c EXCEPT !.cache[tbl] = Put(@, name, id)], Some(id)), tbl, name, id)
        ELSE IF found # {} THEN RaiseDb(c)
        ELSE LET id == c.seq[tbl] + 1 IN
             NoteCreated(NoteReturn(Return(
                 [c EXCEPT !.seq[tbl] = id,
                           !.db[tbl] = @ \cup {[id |-> id, name |-> name]},
                           !.cache[tbl] = Put(@, name, id),
                           !.stats[stat] = @ + 1],
                 Some(id)), tbl, name, id), tbl, name, id)

get_or_create_country(c, name) == GetOrCreateNamed(c, "countries", "countries_created", name)

get_or_create_genre(c, name) == GetOrCreateNamed(c, "genres", "genres_created", name)

\* the roles table is seeded before the run and PgRepo.connect preloads the cache
Roles == [actor |-> 1, director |-> 2, producer |-> 3, writer |-> 4, composer |-> 5,
          cinematographer |-> 6, editor |-> 7, production_designer |-> 8]

get_role_id(c, role_name) ==
    IF c.exc # NoExc THEN c
    ELSE IF role_name = None THEN Return(c, None)
    ELSE IF Val(role_name) \in DOMAIN Roles THEN Return(c, Some(Roles[Val(role_name)]))
    ELSE IF c.aborted THEN RaiseDb(c)
    ELSE Return(c, None)

\* ", ".join(parts)
RECURSIVE Join(_)
Join(parts) ==
    IF parts = <<>> THEN <<>>
    ELSE IF Len(parts) = 1 THEN parts[1]
    ELSE parts[1] \o <<",", " ">> \o Join(Tail(parts))

RECURSIVE lstripChars(_, _)
lstripChars(s, chars) == IF s # <<>> /\ Head(s) \in chars THEN lstripChars(Tail(s), chars) ELSE s

RECURSIVE rstripChars(_, _)
rstripChars(s, chars) ==
    IF s # <<>> /\ s[Len(s)] \in chars THEN rstripChars(SubSeq(s, 1, Len(s) - 1), chars) ELSE s

\* the birth_place column from the birthPlace list of the document
BirthPlace(person) ==
    LET parts == [i \in 1..Len(person.birthPlace) |->
                    LET v == normalize_text(person.birthPlace[i]) IN
                    IF v = None THEN <<>> ELSE Val(v)]
        joined == rstripChars(lstripChars(Join(parts), {",", " "}), {",", " "})
    IN IF joined # <<>> THEN truncate_text(Some(joined), MaxPersonName) ELSE None

COALESCE(a, b) == IF a # None THEN a ELSE b

\* UPDATE people SET photo_url = %s, ...: every column takes the incoming value
OverwritePerson(row, photo_url, birth_date, death_date, birth_place) ==
    [row EXCEPT !.photo_url = photo_url, !.birth_date = birth_date,
                !.death_date = death_date, !.birth_place = birth_place]

\* UPDATE people SET photo_url = COALESCE(%s, photo_url), ... WHERE id = %s
UpdatePerson(row, photo_url, birth_date, death_date, birth_place) ==
    [row EXCEPT !.photo_url = COALESCE(photo_url, @),
                !.birth_date = COALESCE(birth_date, @),
                !.death_date = COALESCE(death_date, @),
                !.birth_place = COALESCE(birth_place, @)]

\* person.reject: the store rejects the statement that writes this person
upsert_person(c, person) ==
    LET name == truncate_text(OrElse(normalize_text(person.name), normalize_text(person.enName)),
                              MaxPersonName)
        en_name == truncate_text(normalize_text(person.enName), MaxPersonName)
        photo_url == normalize_text(person.photo)
        birth_date == person.birthday
        death_date == person.death
        birth_place == BirthPlace(person)
        cache_key == <<name, en_name>>
    IN
    IF c.exc # NoExc THEN c
    ELSE IF name = None THEN Return(c, None)
    ELSE IF cache_key \in DOMAIN c.cache.persons
        THEN NoteReturn(Return(c, Some(c.cache.persons[cache_key])),
                        "people", cache_key, c.cache.persons[cache_key])
    ELSE IF c.aborted THEN RaiseDb(c)
    ELSE LET found == {r \in c.db.people : r.name = name /\ r.en_name = en_name} IN
        IF found # {}
        THEN LET row == PickRow(found) IN
             IF person.reject THEN [RaiseDb(c) EXCEPT !.fired = TRUE]
             ELSE NoteReturn(Return(
                    [c EXCEPT !.db.people = (@ \ {row}) \cup
                                  {UpdatePerson(row, photo_url, birth_date, death_date, birth_place)},
                              !.stats.people_updated = @ + 1,
                              !.cache.persons = Put(@, cache_key, row.id)],
                    Some(row.id)), "people", cache_key, row.id)
        ELSE IF person.reject THEN [RaiseDb(c) EXCEPT !.fired = TRUE]
        ELSE LET id == c.seq.people + 1 IN
             NoteCreated(NoteReturn(Return(
                 [c EXCEPT !.seq.people = id,
                           !.db.people = @ \cup {[id |-> id, name |-> name, en_name |-> en_name,
                                                  birth_date |-> birth_date, death_date |-> death_date,
                                                  birth_place |-> birth_place, photo_url |-> photo_url]},
                           !.stats.people_inserted = @ + 1,
                           !.cache.persons = Put(@, cache_key, id)],
                 Some(id)), "people", cache_key, id), "people", cache_key, id)

upsert_distributor(c, name_in, release_in) ==
    LET name == truncate_text(name_in, MaxPersonName)
        release_name == IF release_in # None THEN truncate_text(release_in, MaxPersonName) ELSE None
        cache_key == Val(name) \o <<":">> \o (IF release_name # None THEN Val(release_name) ELSE <<>>)
        key == <<name, release_name>>
    IN
    IF c.exc # NoExc THEN c
    ELSE IF name_in = None THEN Return(c, None)
    ELSE IF cache_key \in DOMAIN c.cache.distributors
        THEN NoteReturn(Return(c, Some(c.cache.distributors[cache_key])),
                        "distributors", key, c.cache.distributors[cache_key])
    ELSE IF c.aborted THEN RaiseDb(c)
    ELSE LET found == {r \in c.db.distributors : r.name = name /\ r.release_name = release_name} IN
        IF found # {}
        THEN LET id == PickRow(found).id IN
             NoteReturn(Return([c EXCEPT !.cache.distributors = Put(@, cache_key, id)], Some(id)),
                        "distributors", key, id)
        ELSE LET id == c.seq.distributors + 1 IN
             NoteCreated(NoteReturn(Return(
                 [c EXCEPT !.seq.distributors = id,
                           !.db.distributors = @ \cup {[id |-> id, name |-> name,
                                                        release_name |-> release_name]},
                           !.cache.distributors = Put(@, cache_key, id),
                           !.stats.distributors_created = @ + 1],
                 Some(id)), "distributors", key, id), "distributors", key, id)

----------------------------------------------------------------------------
(* The movie loader *)

\* the constraints of the schema: a referencing row needs the referenced row
ForeignKeyHolds(c, tbl, id) == \E r \in c.db[tbl] : r.id = id

\* the title fields taken as they come, blank ones included
RawTitle(movie) == OrElse(movie.name, OrElse(movie.alternativeName, movie.enName))

Title(movie) ==
    OrElse(normalize_text(movie.name),
           OrElse(normalize_text(movie.alternativeName), normalize_text(movie.enName)))

\* the rating field of a document: a dict with its kp entry, null, or a bare number
RatingDict(kp) == [shape |-> "dict", kp |-> kp]
RatingNull == [shape |-> "null", kp |-> None]
RatingNumber == [shape |-> "number", kp |-> None]

\* rating = movie.get("rating") or {}
RatingOrEmpty(movie) == IF movie.rating.shape = "null" THEN RatingDict(None) ELSE movie.rating

\* rating.get("kp"), for the shapes on which .get exists
RatingKp(movie) == RatingOrEmpty(movie).kp

\* the scalar columns of a movies row; year and rating_kp stand for the numeric
\* columns, which the two INSERT statements list and overwrite in the same way
MovieRow(id, movie) ==
    [id |-> id,
     title |-> truncate_text(Title(movie), MaxTitle),
     alternative_name |-> truncate_text(normalize_text(movie.alternativeName), MaxTitle),
     en_name |-> truncate_text(normalize_text(movie.enName), MaxTitle),
     year |-> movie.year,
     rating_kp |-> RatingKp(movie)]

\* ON CONFLICT (id) DO NOTHING: the stored row wins
KeepMovieRow(rows, new) == IF \E r \in rows : r.id = new.id THEN rows ELSE rows \cup {new}

\* INSERT INTO movies (id, ...) VALUES ... ON CONFLICT (id) DO UPDATE SET <every column>
UpsertMovieRow(rows, new) == {r \in rows : r.id # new.id} \cup {new}

insert_movie_core(c, movie) ==
    LET explicit_id == movie.id
        title == Title(movie)
    IN
    IF c.exc # NoExc THEN c
    ELSE IF title = None THEN Return(c, None)
    ELSE IF RatingOrEmpty(movie).shape # "dict" THEN RaisePy(c)
    ELSE IF c.aborted THEN RaiseDb(c)
    ELSE IF movie.reject = "core" THEN [RaiseDb(c) EXCEPT !.fired = TRUE]
    ELSE IF explicit_id # None
    THEN LET movie_id == Val(explicit_id)
             c1 == [c EXCEPT !.db.movies = UpsertMovieRow(@, MovieRow(movie_id, movie))]
         IN Return(IF movie_id # 0 THEN [c1 EXCEPT !.stats.movies_updated = @ + 1] ELSE c1,
                   Some(movie_id))
    ELSE LET movie_id == c.seq.movies + 1
             c0 == [c EXCEPT !.seq.movies = movie_id]
         IN IF \E r \in c.db.movies : r.id = movie_id THEN RaiseDb(c0)
            ELSE Return([c0 EXCEPT !.db.movies = @ \cup {MovieRow(movie_id, movie)},
                                   !.stats.movies_inserted = @ + 1],
                        Some(movie_id))

\* the composite key of an association table: a stored row with the same pair conflicts
PairConflict(table, pair) == BagIn(pair, table)

\* a plain INSERT on a table without the uniqueness constraint
RECURSIVE InsertEveryPair(_, _)
InsertEveryPair(table, pairs) ==
    IF pairs = <<>> THEN table
    ELSE InsertEveryPair(table (+) SetToBag({Head(pairs)}), Tail(pairs))

\* INSERT ... ON CONFLICT DO NOTHING on an association table (a bag of pairs)
RECURSIVE OnConflictDoNothing(_, _)
OnConflictDoNothing(table, pairs) ==
    IF pairs = <<>> THEN table
    ELSE OnConflictDoNothing(
            IF PairConflict(table, Head(pairs)) THEN table ELSE table (+) SetToBag({Head(pairs)}),
            Tail(pairs))

\* execute_values of the pairs into movie_countries or movie_genres
InsertLinks(c, tbl, ref, stat, pairs, rejected) ==
    IF c.aborted THEN RaiseDb(c)
    ELSE IF rejected THEN [RaiseDb(c) EXCEPT !.fired = TRUE]
    ELSE IF \E i \in 1..Len(pairs) :
                \/ pairs[i][2] = None
                \/ ~ForeignKeyHolds(c, ref, Val(pairs[i][2]))
                \/ ~ForeignKeyHolds(c, "movies", pairs[i][1])
        THEN RaiseDb(c)
    ELSE [c EXCEPT !.db[tbl] = OnConflictDoNothing(@, [i \in 1..Len(pairs) |->
                                                        <<pairs[i][1], Val(pairs[i][2])>>]),
                   !.stats[stat] = @ + Len(pairs)]

\* the loop of link_movie_countries: pairs.append((movie_id, cid))
AppendPair(c1, movie_id, pairs) == IF c1.exc # NoExc THEN c1 ELSE Return(c1, Append(pairs, <<movie_id, c1.ret>>))

RECURSIVE CountryPairs(_, _, _, _)
CountryPairs(c, movie_id, names, pairs) ==
    IF c.exc # NoExc THEN c
    ELSE IF names = <<>> THEN Return(c, pairs)
    ELSE CountryPairs(AppendPair(get_or_create_country(c, Head(names)), movie_id, pairs),
                      movie_id, Tail(names),
                      AppendPair(get_or_create_country(c, Head(names)), movie_id, pairs).ret)

LinkPairs(c1, tbl, ref, stat, rejected) ==
    IF c1.exc # NoExc \/ c1.ret = <<>> THEN c1
    ELSE InsertLinks(c1, tbl, ref, stat, c1.ret, rejected)

link_movie_countries(c, movie_id, country_names, rejected) ==
    IF c.exc # NoExc \/ country_names = <<>> THEN c
    ELSE LinkPairs(CountryPairs(c, movie_id, country_names, <<>>),
                   "movie_countries", "countries", "movie_countries_linked", rejected)

RECURSIVE GenrePairs(_, _, _, _)
GenrePairs(c, movie_id, names, pairs) ==
    IF c.exc # NoExc THEN c
    ELSE IF names = <<>> THEN Return(c, pairs)
    ELSE GenrePairs(AppendPair(get_or_create_genre(c, Head(names)), movie_id, pairs),
                    movie_id, Tail(names),
                    AppendPair(get_or_create_genre(c, Head(names)), movie_id, pairs).ret)

link_movie_genres(c, movie_id, genre_names, rejected) ==
    IF c.exc # NoExc \/ genre_names = <<>> THEN c
    ELSE LinkPairs(GenrePairs(c, movie_id, genre_names, <<>>),
                   "movie_genres", "genres", "movie_genres_linked", rejected)

KeepCase(ch) == ch

Lower(ch) ==
    CASE ch = "A" -> "a" [] ch = "D" -> "d" [] ch = "O" -> "o" [] ch = "T" -> "t" [] OTHER -> ch

W_actor == <<"a", "c", "t", "o", "r">>
W_director == <<"d", "i", "r", "e", "c", "t", "o", "r">>
W_producer == <<"p", "r", "o", "d", "u", "c", "e", "r">>
W_writer == <<"w", "r", "i", "t", "e", "r">>
W_composer == <<"c", "o", "m", "p", "o", "s", "e", "r">>
W_operator == <<"o", "p", "e", "r", "a", "t", "o", "r">>
W_cinematographer == <<"c", "i", "n", "e", "m", "a", "t", "o", "g", "r", "a", "p", "h", "e", "r">>
W_editor == <<"e", "d", "i", "t", "o", "r">>
W_designer == <<"d", "e", "s", "i", "g", "n", "e", "r">>
W_production_designer == <<"p", "r", "o", "d", "u", "c", "t", "i", "o", "n", " ">> \o W_designer

\* role_map of insert_movie_people, on the lower-cased profession label
RoleMap(role_key) ==
    CASE role_key = W_actor -> Some("actor")
      [] role_key = W_director -> Some("director")
      [] role_key = W_producer -> Some("producer")
      [] role_key = W_writer -> Some("writer")
      [] role_key = W_composer -> Some("composer")
      [] role_key = W_operator -> Some("cinematographer")
      [] role_key = W_cinematographer -> Some("cinematographer")
      [] role_key = W_editor -> Some("editor")
      [] role_key = W_production_designer -> Some("production_designer")
      [] role_key = W_designer -> Some("production_designer")
      [] OTHER -> None

\* whether the store accepts a movie_people row
PeopleRowOk(c, r) ==
    /\ ForeignKeyHolds(c, "movies", r.movie_id)
    /\ ForeignKeyHolds(c, "people", r.person_id)

RoleKey(p) ==
    LET prof == normalize_text(p.enProfession) IN
    IF prof = None THEN <<>> ELSE [i \in 1..Len(Val(prof)) |-> Lower(Val(prof)[i])]

\* one pass of the loop of insert_movie_people once the person and the role are
\* resolved: the row to append, or no row for a missing person or a duplicate
PeopleRowDense(movie_id, p, person_id, role_id, order_index, seen_keys) ==
    LET character_name == truncate_text(normalize_text(p.description), MaxPersonName)
        dedup_key == <<person_id, role_id, character_name>>
    IN IF dedup_key \in seen_keys THEN <<>>
       ELSE <<[movie_id |-> movie_id, person_id |-> person_id, role_id |-> role_id,
               character_name |-> character_name, order_index |-> Cardinality(seen_keys) + 1]>>

PeopleRow(movie_id, p, person_id, role_id, order_index, seen_keys) ==
    LET character_name == truncate_text(normalize_text(p.description), MaxPersonName)
        dedup_key == <<person_id, role_id, character_name>>
    IN IF dedup_key \in seen_keys THEN <<>>
       ELSE <<[movie_id |-> movie_id, person_id |-> person_id, role_id |-> role_id,
               character_name |-> character_name, order_index |-> order_index]>>

NoKeys(rows) == {}

DedupKeys(rows) == {<<rows[i].person_id, rows[i].role_id, rows[i].character_name>> : i \in 1..Len(rows)}

ResolveRole(c1, p) ==
    IF c1.exc # NoExc \/ Falsy(c1.ret) THEN c1
    ELSE IF RoleMap(RoleKey(p)) # None
         THEN [get_role_id(c1, RoleMap(RoleKey(p))) EXCEPT !.person = c1.ret]
         ELSE [c1 EXCEPT !.ret = None, !.person = c1.ret]

\* the loop of insert_movie_people that builds the rows
RECURSIVE PeopleRows(_, _, _, _, _)
PeopleStep(c2, movie_id, persons, order_index, rows) ==
    IF c2.exc # NoExc THEN c2
    ELSE IF Falsy(c2.person) THEN PeopleRows(c2, movie_id, Tail(persons), order_index, rows)
    ELSE PeopleRows(c2, movie_id, Tail(persons), order_index,
                    rows \o PeopleRow(movie_id, Head(persons), Val(c2.person), c2.ret,
                                      order_index, DedupKeys(rows)))

PeopleRows(c, movie_id, persons, order_index, rows) ==
    IF c.exc # NoExc THEN c
    ELSE IF persons = <<>> THEN Return(c, rows)
    ELSE PeopleStep(ResolveRole([upsert_person(c, Head(persons)) EXCEPT !.person = None],
                                Head(persons)),
                    movie_id, persons, order_index + 1, rows)

\* the per-row fallback of insert_movie_people: each row in its own try
RECURSIVE PeopleFallback(_, _, _)
PeopleFallback(c, rows, linked) ==
    IF rows = <<>> THEN [c EXCEPT !.stats.movie_people_linked = @ + linked]
    ELSE IF c.aborted \/ ~PeopleRowOk(c, Head(rows))
         THEN PeopleFallback([c EXCEPT !.aborted = TRUE], Tail(rows), linked)
    ELSE PeopleFallback([c EXCEPT !.db.movie_people = @ \cup {Head(rows)}], Tail(rows), linked + 1)

\* the bulk INSERT of insert_movie_people and its except branch
InsertPeopleRows(c1, rejected) ==
    IF c1.exc # NoExc \/ c1.ret = <<>> THEN c1
    ELSE IF c1.aborted \/ rejected \/ \E i \in 1..Len(c1.ret) : ~PeopleRowOk(c1, c1.ret[i])
         THEN PeopleFallback([c1 EXCEPT !.aborted = TRUE, !.fired = @ \/ (~c1.aborted /\ rejected)],
                             c1.ret, 0)
    ELSE [c1 EXCEPT !.db.movie_people = @ \cup {c1.ret[i] : i \in 1..Len(c1.ret)},
                    !.stats.movie_people_linked = @ + Len(c1.ret)]

insert_movie_people(c, movie_id, persons, rejected) ==
    IF c.exc # NoExc \/ persons = <<>> THEN c
    ELSE InsertPeopleRows(PeopleRows(c, movie_id, persons, 0, <<>>), rejected)

Upper(ch) == CASE ch = "f" -> "F" [] ch = "x" -> "X" [] OTHER -> ch

insert_movie_facts(c, movie_id, facts, rejected) ==
    LET kept == SelectSeq(facts, LAMBDA f : normalize_text(f.value) # None)
        rows == {[movie_id |-> movie_id,
                  fact_text |-> Val(normalize_text(kept[i].value)),
                  fact_type |-> LET t == normalize_text(kept[i].type) IN
                                IF t = None THEN <<"F", "A", "C", "T">>
                                ELSE [j \in 1..Len(Val(t)) |-> Upper(Val(t)[j])],
                  is_spoiler |-> kept[i].spoiler] : i \in 1..Len(kept)}
    IN
    IF c.exc # NoExc \/ facts = <<>> \/ rows = {} THEN c
    ELSE IF c.aborted THEN RaiseDb(c)
    ELSE IF rejected THEN [RaiseDb(c) EXCEPT !.fired = TRUE]
    ELSE IF ~ForeignKeyHolds(c, "movies", movie_id) THEN RaiseDb(c)
    ELSE [c EXCEPT !.db.movie_facts = @ \cup rows,
                   !.stats.movie_facts_inserted = @ + Len(kept)]

insert_movie_videos(c, movie_id, videos, rejected) ==
    LET kept == SelectSeq(videos, LAMBDA v : normalize_text(v.url) # None)
        rows == {[movie_id |-> movie_id,
                  video_url |-> Val(normalize_text(kept[i].url)),
                  video_type |-> LET t == normalize_text(kept[i].type) IN
                                 IF t = None THEN None
                                 ELSE Some([j \in 1..Len(Val(t)) |-> Lower(Val(t)[j])])]
                 : i \in 1..Len(kept)}
    IN
    IF c.exc # NoExc \/ videos = <<>> \/ rows = {} THEN c
    ELSE IF c.aborted THEN RaiseDb(c)
    ELSE IF rejected THEN [RaiseDb(c) EXCEPT !.fired = TRUE]
    ELSE IF ~ForeignKeyHolds(c, "movies", movie_id) THEN RaiseDb(c)
    ELSE [c EXCEPT !.db.movie_videos = @ \cup rows,
                   !.stats.movie_videos_inserted = @ + Len(kept)]

\* INSERT INTO movie_distributors ... ON CONFLICT DO NOTHING
InsertDistribution(c1, movie_id, movie, rejected) ==
    IF c1.exc # NoExc \/ Falsy(c1.ret) THEN c1
    ELSE IF c1.aborted THEN RaiseDb(c1)
    ELSE IF rejected THEN [RaiseDb(c1) EXCEPT !.fired = TRUE]
    ELSE IF ~ForeignKeyHolds(c1, "distributors", Val(c1.ret))
            \/ ~ForeignKeyHolds(c1, "movies", movie_id) THEN RaiseDb(c1)
    ELSE [c1 EXCEPT !.db.movie_distributors = @ \cup
                        {[movie_id |-> movie_id, distributor_id |-> Val(c1.ret),
                          distribution_type |-> "theatrical",
                          release_date |-> OrElse(movie.premiere_russia, movie.premiere_world)]}]

\* the distributor step of process_movie_batch
LinkDistributor(c, movie_id, movie, rejected) ==
    IF c.exc # NoExc THEN c
    ELSE InsertDistribution(upsert_distributor(c, normalize_text(movie.distributor),
                                               normalize_text(movie.distributorRelease)),
                            movie_id, movie, rejected)

----------------------------------------------------------------------------
(* The sinks.  c.es is the EsRepo (client, _buffer) with the set of movie  *)
(* ids that reached the index; c.redis is the RedisRepo (client, the       *)
(* commands queued on _pipeline, _pending) with what reached the cache.    *)
(***************************************************************************)

\* EsRepo.flush; ok: the bulk request succeeds
\* a flush that keeps the documents of a failed bulk request for the next one
EsFlushKeeps(e, ok) ==
    IF ~e.client \/ e.buffer = <<>> THEN [e EXCEPT !.buffer = <<>>]
    ELSE [e EXCEPT !.indexed = IF ok THEN @ \cup {e.buffer[i] : i \in 1..Len(e.buffer)} ELSE @,
                   !.buffer = IF ok THEN <<>> ELSE @, !.tried = TRUE]

EsFlush(e, ok) ==
    IF ~e.client \/ e.buffer = <<>> THEN [e EXCEPT !.buffer = <<>>]
    ELSE [e EXCEPT !.indexed = IF ok THEN @ \cup {e.buffer[i] : i \in 1..Len(e.buffer)} ELSE @,
                   !.buffer = <<>>, !.tried = TRUE]

\* EsRepo.index_movie
index_movie(e, movie_id, ok) ==
    IF ~e.client THEN e
    ELSE LET e1 == [e EXCEPT !.buffer = Append(@, movie_id)] IN
         IF Len(e1.buffer) >= ES_BULK_SIZE THEN EsFlush(e1, ok) ELSE e1

\* RedisRepo.flush; ok: the pipeline executes
RedisFlush(r, ok) ==
    IF ~r.client \/ r.pipeline = <<>> THEN [r EXCEPT !.pending = 0, !.pipeline = <<>>]
    ELSE [r EXCEPT !.cached = IF ok THEN @ \cup {r.pipeline[i] : i \in 1..Len(r.pipeline)} ELSE @,
                   !.pending = 0, !.pipeline = <<>>, !.tried = TRUE]

\* RedisRepo.cache_trending_movie; rating_kp is the only rating the model's documents carry
cache_trending_movie(r, movie_id, movie, ok) ==
    LET rating_kp == movie.rating.kp
        max_rating == IF Falsy(rating_kp) THEN 0 ELSE Val(rating_kp)
        year == movie.year
        meets_thresholds == max_rating >= TRENDING_MIN_RATING
    IN
    IF ~r.client THEN r
    ELSE IF movie.rating.shape # "dict" THEN r
    ELSE IF year = None \/ Val(year) < TRENDING_MIN_YEAR THEN r
    ELSE IF meets_thresholds \/ ALWAYS_CACHE_RECENT
    THEN LET r1 == [r EXCEPT !.pipeline = Append(@, [id |-> movie_id, high_rated |-> meets_thresholds]),
                             !.pending = @ + 1]
         IN IF r1.pending >= REDIS_PIPELINE_SIZE THEN RedisFlush(r1, ok) ELSE r1
    ELSE r

----------------------------------------------------------------------------
(* process_movie_batch: the try block of one document.  The result carries *)
(* outcome: "released" (loaded), "skipped" (no title or falsy id) or       *)
(* "raised" (the except branch is next), and counted: inserted was         *)
(* incremented.                                                            *)
(***************************************************************************)

NonBlank(names) ==
    LET norm == [i \in 1..Len(names) |-> normalize_text(names[i])]
        kept == SelectSeq(norm, LAMBDA n : n # None)
    IN [i \in 1..Len(kept) |-> Val(kept[i])]

\* the mirroring without its try/except: a failing sink fails the document
MovieFinishUnguarded(c7, movie_id, movie, sinkOk) ==
    IF c7.exc # NoExc THEN [c7 EXCEPT !.outcome = "raised"]
    ELSE IF ~sinkOk /\ (c7.es.client \/ c7.redis.client)
        THEN [c7 EXCEPT !.exc = "py", !.outcome = "raised"]
    ELSE [c7 EXCEPT !.es = index_movie(@, movie_id, sinkOk),
                    !.redis = cache_trending_movie(@, movie_id, movie, sinkOk),
                    !.counted = TRUE,
                    !.exc = IF c7.aborted THEN "db" ELSE NoExc,
                    !.outcome = IF c7.aborted THEN "raised" ELSE "released"]

\* the mirroring to the sinks, inserted += 1 and RELEASE SAVEPOINT
MovieFinish(c7, movie_id, movie, sinkOk) ==
    IF c7.exc # NoExc THEN [c7 EXCEPT !.outcome = "raised"]
    ELSE [c7 EXCEPT !.es = index_movie(@, movie_id, sinkOk),
                    !.redis = cache_trending_movie(@, movie_id, movie, sinkOk),
                    !.counted = TRUE,
                    !.exc = IF c7.aborted THEN "db" ELSE NoExc,
                    !.outcome = IF c7.aborted THEN "raised" ELSE "released"]

\* the steps after the core row
MovieLinks(c1, movie_id, movie, sinkOk) ==
    MovieFinish(
        LinkDistributor(
            insert_movie_videos(
                insert_movie_facts(
                    insert_movie_people(
                        link_movie_genres(
                            link_movie_countries(c1, movie_id, NonBlank(movie.countries),
                                                 movie.reject = "countries"),
                            movie_id, NonBlank(movie.genres), movie.reject = "genres"),
                        movie_id, movie.persons, movie.reject = "people"),
                    movie_id, movie.facts, movie.reject = "facts"),
                movie_id, movie.videos, movie.reject = "videos"),
            movie_id, movie, movie.reject = "distributor"),
        movie_id, movie, sinkOk)

MovieAfterCore(c1, movie, sinkOk) ==
    IF c1.exc # NoExc THEN [c1 EXCEPT !.outcome = "raised"]
    ELSE IF Falsy(c1.ret) THEN [c1 EXCEPT !.outcome = "skipped"]
    ELSE MovieLinks(c1, Val(c1.ret), movie, sinkOk)

MovieTry(c, movie, sinkOk) == MovieAfterCore(insert_movie_core(c, movie), movie, sinkOk)

----------------------------------------------------------------------------
(* The documents the cursors yield *)

T_ru == <<"R", "U">>
T_drama == <<"d", "r", "a", "m", "a">>
T_ivan == <<"I", "v", "a", "n">>
T_kino == <<"k", "i", "n", "o">>

PersonShape(photo, birthday, death, birthPlace, enProfession, reject) ==
    [name |-> Some(T_ivan), enName |-> None, photo |-> photo, birthday |-> birthday,
     death |-> death, birthPlace |-> birthPlace, enProfession |-> enProfession,
     description |-> None, reject |-> reject]

\* embedded person references of a movie document
PersonRefA == PersonShape(Some(<<"p", "1">>), None, None, <<>>, Some(<<"A", "c", "t", "o", "r">>), FALSE)
PersonRefB == PersonShape(Some(<<"p", "2">>), Some(1970), None, <<Some(<<"m">>)>>, None, FALSE)

\* countries, genres, persons, facts, videos, distributors, premiere
RefsNone ==
    [countries |-> <<>>, genres |-> <<>>, persons |-> <<>>, facts |-> <<>>, videos |-> <<>>,
     distributor |-> None, distributorRelease |-> None,
     premiere_russia |-> None, premiere_world |-> None]

RefsFull ==
    [countries |-> <<Some(T_ru)>>, genres |-> <<Some(T_drama), Some(T_drama)>>,
     persons |-> <<PersonRefA>>,
     facts |-> <<[value |-> Some(<<"f">>), type |-> None, spoiler |-> FALSE]>>,
     videos |-> <<[url |-> Some(<<"u">>), type |-> Some(<<"T">>)]>>,
     distributor |-> Some(T_kino), distributorRelease |-> None,
     premiere_russia |-> None, premiere_world |-> Some(2001)]

RefsDup ==
    [countries |-> <<Some(T_ru), Some(<<" ">> \o T_ru), None>>, genres |-> <<Some(T_drama)>>,
     persons |-> <<PersonRefB>>, facts |-> <<>>, videos |-> <<>>,
     distributor |-> None, distributorRelease |-> None,
     premiere_russia |-> None, premiere_world |-> None]

RejectSteps == {"core", "countries", "genres", "people", "facts", "videos", "distributor"}

MovieDoc(id, scalars, refs, reject) ==
    [id |-> id, name |-> scalars.name, alternativeName |-> scalars.alternativeName,
     enName |-> scalars.enName, year |-> scalars.year, rating |-> scalars.rating,
     countries |-> refs.countries, genres |-> refs.genres, persons |-> refs.persons,
     facts |-> refs.facts, videos |-> refs.videos, distributor |-> refs.distributor,
     distributorRelease |-> refs.distributorRelease, premiere_russia |-> refs.premiere_russia,
     premiere_world |-> refs.premiere_world, reject |-> reject]

BlankTitle == [name |-> Some(<<" ">>), alternativeName |-> None, enName |-> Some(<<>>),
               year |-> Some(2024), rating |-> RatingDict(Some(8))]
TitleA == [name |-> Some(<<"a">>), alternativeName |-> None, enName |-> None,
           year |-> Some(2024), rating |-> RatingDict(Some(8))]
TitleB == [name |-> Some(<<" ">>), alternativeName |-> Some(<<"b", " ">>), enName |-> Some(<<"c">>),
           year |-> Some(1999), rating |-> RatingDict(None)]
\* documents whose rating is not a dict
TitleRatingNull == [TitleA EXCEPT !.rating = RatingNull]
TitleRatingNumber == [TitleA EXCEPT !.rating = RatingNumber]

\* well-formed documents, documents without a usable title, and documents one of
\* whose writes the store rejects
MovieDocs ==
    {MovieDoc(id, s, r, "none") : id \in {None, Some(1)}, s \in {TitleA, TitleB},
                                  r \in {RefsNone, RefsFull, RefsDup}}
    \cup {MovieDoc(id, BlankTitle, RefsFull, "none") : id \in {None, Some(1)}}
    \cup {MovieDoc(Some(0), TitleA, RefsFull, "none")}
    \cup {MovieDoc(None, s, RefsNone, "none") : s \in {TitleRatingNull, TitleRatingNumber}}
    \cup {MovieDoc(None, TitleA, RefsFull, rj) : rj \in RejectSteps}
    \cup {MovieDoc(Some(1), TitleA, RefsFull, rj) : rj \in {"core", "facts"}}

----------------------------------------------------------------------------
(* State of the run *)

EmptyMap == [x \in {} |-> 0]

EmptyDb ==
    [movies |-> {}, countries |-> {}, genres |-> {}, people |-> {}, distributors |-> {},
     movie_countries |-> EmptyBag, movie_genres |-> EmptyBag, movie_people |-> {},
     movie_facts |-> {}, movie_videos |-> {}, movie_distributors |-> {},
     seasons |-> {}, episodes |-> {}]

ZeroSeq == [movies |-> 0, countries |-> 0, genres |-> 0, people |-> 0, distributors |-> 0, seasons |-> 0]

EmptyCache == [countries |-> EmptyMap, genres |-> EmptyMap, distributors |-> EmptyMap,
               persons |-> EmptyMap]

ZeroStats ==
    [people_inserted |-> 0, people_updated |-> 0, movies_inserted |-> 0, movies_updated |-> 0,
     seasons_inserted |-> 0, countries_created |-> 0, genres_created |-> 0,
     distributors_created |-> 0, movie_countries_linked |-> 0, movie_genres_linked |-> 0,
     movie_people_linked |-> 0, movie_facts_inserted |-> 0, movie_videos_inserted |-> 0]

\* history: what the resolvers returned and created, whether a commit failed, and
\* whether the connection attempts to a sink were exhausted
NoHist == [returned |-> {}, created |-> {}, commitFailed |-> FALSE,
           esFailed |-> FALSE, redisFailed |-> FALSE]

NoDoc == [kind |-> "none"]

\* BATCH_SIZE and COMMIT_INTERVAL are read from the environment when the run starts;
\* batch holds the cursor positions of the documents of movies_batch (people_batch), and
\* handled is a history field: the cursor positions handed to the loader, in order;
\* prior is a history field: the movie rows that carried the document's id at its savepoint
ZeroLoop ==
    [BATCH_SIZE |-> 1, COMMIT_INTERVAL |-> 1, fetched |-> 0, batchLen |-> 0, idx |-> 0,
     final |-> FALSE, inserted |-> 0, skipped |-> 0, total |-> 0, since_commit |-> 0,
     outcome |-> "", fired |-> FALSE, prior |-> {},
     pg_attempt |-> 0, sink_attempt |-> 0, waited |-> 0, SKIP_PEOPLE |-> FALSE,
     docs_since_commit |-> 0, called |-> "", ret |-> <<"none">>,
     stage |-> "", batch |-> <<>>, handled |-> <<>>]

\* rows left by an earlier run: the cleanup truncates movies and their children only
PriorPerson ==
    [id |-> 1, name |-> Some(T_ivan), en_name |-> None, birth_date |-> None, death_date |-> None,
     birth_place |-> None, photo_url |-> Some(<<"p", "0">>)]

PriorDb == [EmptyDb EXCEPT !.countries = {[id |-> 1, name |-> T_ru]}, !.people = {PriorPerson}]

PriorSeq == [ZeroSeq EXCEPT !.countries = 1, !.people = 1]

Ctx(d, s, a, ch, st, e, r, h) ==
    [db |-> d, seq |-> s, aborted |-> a, cache |-> ch, stats |-> st, es |-> e, redis |-> r,
     hist |-> h, exc |-> NoExc, ret |-> None, person |-> None, fired |-> FALSE, outcome |-> "",
     counted |-> FALSE]

\* tried: a bulk request (a pipeline execution) was sent
NoEs == [client |-> FALSE, buffer |-> <<>>, indexed |-> {}, tried |-> FALSE]
NoRedis == [client |-> FALSE, pipeline |-> <<>>, pending |-> 0, cached |-> {}, tried |-> FALSE]

RealCtx == Ctx(db, seq, aborted, cache, stats, es, redis, hist)

ShadowCtx == Ctx(shadow.db, shadow.seq, FALSE, shadow.cache, ZeroStats, NoEs, NoRedis, NoHist)

\* the run without the documents whose write the store rejected: the same loader,
\* followed by its except branch when the try block raised
ShadowSettle(r) ==
    [db |-> IF r.outcome = "raised" THEN shadow.db ELSE r.db,
     seq |-> r.seq, cache |-> r.cache, outcome |-> r.outcome]

ShadowStep(real, movie) ==
    IF real.fired THEN [shadow EXCEPT !.outcome = "absent"]
    ELSE ShadowSettle(MovieTry(ShadowCtx, movie, TRUE))

----------------------------------------------------------------------------
(* The movie stage of seed_from_mongo *)

InitConfigured(prior, esUp, redisUp, batch_size, commit_interval, skip_people) ==
    /\ db = IF prior THEN PriorDb ELSE EmptyDb
    /\ durable = db
    /\ seq = IF prior THEN PriorSeq ELSE ZeroSeq
    /\ sp = None
    /\ aborted = FALSE
    /\ cache = EmptyCache
    /\ stats = ZeroStats
    /\ es = [NoEs EXCEPT !.client = esUp]
    /\ redis = [NoRedis EXCEPT !.client = redisUp]
    /\ hist = NoHist
    /\ doc = NoDoc
    /\ loop = [ZeroLoop EXCEPT !.BATCH_SIZE = batch_size, !.COMMIT_INTERVAL = commit_interval,
                               !.SKIP_PEOPLE = skip_people]
    /\ shadow = [db |-> db, seq |-> seq, cache |-> cache, outcome |-> ""]

InitStores(prior, esUp, redisUp, batch_size, commit_interval) ==
    InitConfigured(prior, esUp, redisUp, batch_size, commit_interval, FALSE)

Init ==
    /\ pc = "m_fetch"
    /\ \E prior \in BOOLEAN, sinksUp \in BOOLEAN, batch_size \in 1..MaxBatchSize :
            InitStores(prior, sinksUp, sinksUp, batch_size, 1)

\* for movie_doc in movies_cursor: movies_batch.append(movie_doc)
MovieFetch ==
    /\ pc = "m_fetch"
    /\ ~loop.final
    /\ loop.fetched < MaxMovieDocs
    /\ loop' = [loop EXCEPT !.fetched = @ + 1, !.batchLen = @ + 1, !.idx = 0,
                            !.inserted = 0, !.skipped = 0,
                            !.batch = Append(@, loop.fetched + 1)]
    /\ pc' = IF loop.batchLen + 1 >= loop.BATCH_SIZE THEN "m_doc" ELSE "m_fetch"
    /\ UNCHANGED <<doc, db, durable, sp, aborted, seq, cache, stats, es, redis, hist, shadow>>

\* the cursor is exhausted: the remainder, if any, is the last batch
MovieCursorEnd ==
    /\ pc = "m_fetch"
    /\ ~loop.final
    /\ loop' = [loop EXCEPT !.final = TRUE, !.idx = 0, !.inserted = 0, !.skipped = 0]
    /\ pc' = IF loop.batchLen > 0 THEN "m_doc" ELSE "done"
    /\ UNCHANGED <<doc, db, durable, sp, aborted, seq, cache, stats, es, redis, hist, shadow>>

\* for movie_doc in movies_batch: SAVEPOINT
MovieSavepoint(d) ==
    /\ pc = "m_doc"
    /\ loop.idx < loop.batchLen
    /\ doc' = d
    /\ sp' = Some(db)
    /\ pc' = "m_try"
    /\ loop' = [loop EXCEPT !.prior = IF d.id = None THEN {} ELSE {r \in db.movies : r.id = Val(d.id)},
                            !.handled = Append(@, loop.batch[loop.idx + 1])]
    /\ UNCHANGED <<db, durable, aborted, seq, cache, stats, es, redis, hist, shadow>>

\* the state after the try block of a document
MovieResult(r) ==
    /\ db' = r.db
    /\ seq' = r.seq
    /\ aborted' = r.aborted
    /\ cache' = r.cache
    /\ stats' = r.stats
    /\ es' = r.es
    /\ redis' = r.redis
    /\ hist' = r.hist
    /\ shadow' = ShadowStep(r, doc)
    /\ sp' = IF r.outcome = "raised" THEN sp ELSE None
    /\ pc' = IF r.outcome = "raised" THEN "m_except" ELSE "m_doc"
    /\ loop' = [loop EXCEPT !.outcome = r.outcome,
                            !.fired = r.fired,
                            !.inserted = IF r.counted THEN @ + 1 ELSE @,
                            !.skipped = IF r.outcome = "skipped" THEN @ + 1 ELSE @,
                            !.idx = IF r.outcome = "raised" THEN @ ELSE @ + 1]

\* the try block, up to RELEASE SAVEPOINT or to the exception
MovieBody(sinkOk) ==
    /\ pc = "m_try"
    /\ MovieResult(MovieTry(RealCtx, doc, sinkOk))
    /\ UNCHANGED <<doc, durable>>

\* RELEASE SAVEPOINT alone: the writes of the document stay
KeepWrites(snapshot, current) == current

\* ROLLBACK TO SAVEPOINT of the except branch
RollbackToSavepoint(snapshot, current) == snapshot

\* an except branch that rolls back to the savepoint and does not release it
MovieExceptLeavesOpen ==
    /\ pc = "m_except"
    /\ db' = RollbackToSavepoint(Val(sp), db)
    /\ aborted' = FALSE
    /\ sp' = sp
    /\ loop' = [loop EXCEPT !.skipped = @ + 1, !.idx = @ + 1]
    /\ pc' = "m_doc"
    /\ UNCHANGED <<doc, durable, seq, cache, stats, es, redis, hist, shadow>>

\* except Exception: skipped += 1; ROLLBACK TO SAVEPOINT; RELEASE SAVEPOINT
MovieExcept ==
    /\ pc = "m_except"
    /\ db' = RollbackToSavepoint(Val(sp), db)
    /\ aborted' = FALSE
    /\ sp' = None
    /\ loop' = [loop EXCEPT !.skipped = @ + 1, !.idx = @ + 1]
    /\ pc' = "m_doc"
    /\ UNCHANGED <<doc, durable, seq, cache, stats, es, redis, hist, shadow>>

\* return inserted
MovieBatchReturn ==
    /\ pc = "m_doc"
    /\ loop.idx = loop.batchLen
    /\ loop' = [loop EXCEPT !.total = @ + loop.inserted, !.batchLen = 0, !.batch = <<>>]
    /\ pc' = "m_commit"
    /\ UNCHANGED <<doc, db, durable, sp, aborted, seq, cache, stats, es, redis, hist, shadow>>

\* pg.conn.commit(); ok: the store accepts the commit
\* a commit that makes nothing durable
MovieCommitSkipped(ok) ==
    /\ pc = "m_commit"
    /\ durable' = durable
    /\ pc' = "m_flush"
    /\ UNCHANGED <<doc, db, sp, aborted, seq, cache, stats, es, redis, loop, hist, shadow>>

MovieCommit(ok) ==
    /\ pc = "m_commit"
    /\ IF ok
       THEN /\ durable' = db
            /\ pc' = "m_flush"
            /\ hist' = hist
       ELSE /\ durable' = durable
            /\ pc' = "raise"
            /\ hist' = [hist EXCEPT !.commitFailed = TRUE]
    /\ UNCHANGED <<doc, db, sp, aborted, seq, cache, stats, es, redis, loop, shadow>>

\* es.flush(); redis_repo.flush()
MovieFlush(sinkOk) ==
    /\ pc = "m_flush"
    /\ es' = EsFlush(es, sinkOk)
    /\ redis' = RedisFlush(redis, sinkOk)
    /\ pc' = IF loop.final THEN "done" ELSE "m_fetch"
    /\ UNCHANGED <<doc, db, durable, sp, aborted, seq, cache, stats, loop, hist, shadow>>

\* except Exception: pg.conn.rollback(); raise -- finally: es.close(); redis_repo.close()
Fatal(sinkOk) ==
    /\ pc = "raise"
    /\ db' = durable
    /\ aborted' = FALSE
    /\ sp' = None
    /\ es' = EsFlush(es, sinkOk)
    /\ redis' = RedisFlush(redis, sinkOk)
    /\ pc' = "fatal"
    /\ UNCHANGED <<doc, durable, seq, cache, stats, loop, hist, shadow>>

MovieStage ==
    \/ MovieFetch
    \/ MovieCursorEnd
    \/ \E d \in MovieDocs : MovieSavepoint(d)
    \/ \E sinkOk \in BOOLEAN : MovieBody(sinkOk)
    \/ MovieExcept
    \/ MovieBatchReturn
    \/ \E ok \in BOOLEAN : MovieCommit(ok)
    \/ \E sinkOk \in BOOLEAN : MovieFlush(sinkOk)

Next ==
    \/ MovieStage
    \/ \E sinkOk \in BOOLEAN : Fatal(sinkOk)

Spec == Init /\ [][Next]_vars

----------------------------------------------------------------------------
(* The people stage: process_people_batch and its loop in seed_from_mongo *)

T_p1 == <<"p", "1">>

PersonDoc(name, photo, birthday, birthPlace, reject) ==
    [name |-> name, enName |-> None, photo |-> photo, birthday |-> birthday, death |-> None,
     birthPlace |-> birthPlace, reject |-> reject]

\* person documents: with and without a name, with absent, blank and present fields,
\* and documents whose write the store rejects
PeopleDocs ==
    {PersonDoc(Some(T_ivan), ph, bd, bp, FALSE) :
        ph \in {None, Some(<<" ">>), Some(T_p1)}, bd \in {None, Some(1970)},
        bp \in {<<>>, <<Some(<<"m">>), None>>}}
    \cup {PersonDoc(Some(<<"A">>), Some(T_p1), None, <<>>, rj) : rj \in BOOLEAN}
    \cup {PersonDoc(None, Some(T_p1), None, <<>>, FALSE)}

\* the state after the try block of a person document
PeopleResult(r) ==
    /\ db' = r.db
    /\ seq' = r.seq
    /\ aborted' = r.aborted
    /\ cache' = r.cache
    /\ stats' = r.stats
    /\ hist' = r.hist
    /\ sp' = IF r.exc # NoExc THEN sp ELSE None
    /\ pc' = IF r.exc # NoExc THEN "p_except" ELSE "p_doc"
    /\ loop' = [loop EXCEPT !.outcome = IF r.exc # NoExc THEN "raised"
                                        ELSE IF Falsy(r.ret) THEN "skipped" ELSE "released",
                            !.fired = r.fired,
                            !.inserted = IF r.exc = NoExc /\ ~Falsy(r.ret) THEN @ + 1 ELSE @,
                            !.idx = IF r.exc # NoExc THEN @ ELSE @ + 1]

InitPeople ==
    /\ pc = "p_begin"
    /\ \E prior \in BOOLEAN, batch_size \in 1..MaxBatchSize, skip \in BOOLEAN :
            InitConfigured(prior, FALSE, FALSE, batch_size, 1, skip)

\* the flag chooses the log line only; the cursor is opened either way
PeopleBegin ==
    /\ pc = "p_begin"
    /\ pc' = "p_fetch"
    /\ UNCHANGED <<doc, db, durable, sp, aborted, seq, cache, stats, es, redis, loop, hist, shadow>>

\* for person_doc in people_cursor: people_batch.append(person_doc)
PeopleFetch ==
    /\ pc = "p_fetch"
    /\ ~loop.final
    /\ loop.fetched < MaxPeopleDocs
    /\ loop' = [loop EXCEPT !.fetched = @ + 1, !.batchLen = @ + 1, !.idx = 0,
                            !.inserted = 0, !.skipped = 0,
                            !.batch = Append(@, loop.fetched + 1)]
    /\ pc' = IF loop.batchLen + 1 >= loop.BATCH_SIZE THEN "p_doc" ELSE "p_fetch"
    /\ UNCHANGED <<doc, db, durable, sp, aborted, seq, cache, stats, es, redis, hist, shadow>>

\* an exhausted cursor whose remainder is never handed to the loader
PeopleCursorEndDrops ==
    /\ pc = "p_fetch"
    /\ ~loop.final
    /\ loop' = [loop EXCEPT !.final = TRUE, !.idx = 0, !.inserted = 0, !.skipped = 0]
    /\ pc' = "done"
    /\ UNCHANGED <<doc, db, durable, sp, aborted, seq, cache, stats, es, redis, hist, shadow>>

\* the cursor is exhausted: if people_batch: ...
PeopleCursorEnd ==
    /\ pc = "p_fetch"
    /\ ~loop.final
    /\ loop' = [loop EXCEPT !.final = TRUE, !.idx = 0, !.inserted = 0, !.skipped = 0]
    /\ pc' = IF loop.batchLen > 0 THEN "p_doc" ELSE "done"
    /\ UNCHANGED <<doc, db, durable, sp, aborted, seq, cache, stats, es, redis, hist, shadow>>

\* for person_doc in people_batch: SAVEPOINT
PeopleSavepoint(d) ==
    /\ pc = "p_doc"
    /\ loop.idx < loop.batchLen
    /\ doc' = d
    /\ sp' = Some(db)
    /\ pc' = "p_try"
    /\ loop' = [loop EXCEPT !.handled = Append(@, loop.batch[loop.idx + 1])]
    /\ UNCHANGED <<db, durable, aborted, seq, cache, stats, es, redis, hist, shadow>>

\* pid = pg.upsert_person(person_doc); if pid: inserted += 1; RELEASE SAVEPOINT
PeopleBody ==
    /\ pc = "p_try"
    /\ PeopleResult(upsert_person(RealCtx, doc))
    /\ UNCHANGED <<doc, durable, es, redis, shadow>>

\* except Exception: skipped += 1; ROLLBACK TO SAVEPOINT; RELEASE SAVEPOINT
PeopleExcept ==
    /\ pc = "p_except"
    /\ db' = RollbackToSavepoint(Val(sp), db)
    /\ aborted' = FALSE
    /\ sp' = None
    /\ loop' = [loop EXCEPT !.skipped = @ + 1, !.idx = @ + 1]
    /\ pc' = "p_doc"
    /\ UNCHANGED <<doc, durable, seq, cache, stats, es, redis, hist, shadow>>

\* return inserted
PeopleBatchReturn ==
    /\ pc = "p_doc"
    /\ loop.idx = loop.batchLen
    /\ loop' = [loop EXCEPT !.total = @ + loop.inserted, !.batchLen = 0, !.batch = <<>>]
    /\ pc' = "p_commit"
    /\ UNCHANGED <<doc, db, durable, sp, aborted, seq, cache, stats, es, redis, hist, shadow>>

\* pg.conn.commit(); ok: the store accepts the commit
PeopleCommit(ok) ==
    /\ pc = "p_commit"
    /\ IF ok
       THEN /\ durable' = db
            /\ pc' = IF loop.final THEN "done" ELSE "p_fetch"
            /\ hist' = hist
       ELSE /\ durable' = durable
            /\ pc' = "raise"
            /\ hist' = [hist EXCEPT !.commitFailed = TRUE]
    /\ UNCHANGED <<doc, db, sp, aborted, seq, cache, stats, es, redis, loop, shadow>>

PeopleStage ==
    \/ PeopleBegin
    \/ PeopleFetch
    \/ PeopleCursorEnd
    \/ \E d \in PeopleDocs : PeopleSavepoint(d)
    \/ PeopleBody
    \/ PeopleExcept
    \/ PeopleBatchReturn
    \/ \E ok \in BOOLEAN : PeopleCommit(ok)

NextPeople ==
    \/ PeopleStage
    \/ \E sinkOk \in BOOLEAN : Fatal(sinkOk)

SpecPeople == InitPeople /\ [][NextPeople]_vars

----------------------------------------------------------------------------
(* The season stage: upsert_season and its loop in seed_from_mongo *)

\* every season is written whatever the movies table holds
AnyMovie(c, movie_id) == TRUE

\* SELECT id FROM movies WHERE id = %s; exists = cur.fetchone() is not None
MovieExists(c, movie_id) == \E r \in c.db.movies : r.id = movie_id

SeasonRow(id, movie_id, number, season_doc) ==
    [id |-> id, movie_id |-> movie_id, season_number |-> number,
     episodes_count |-> season_doc.episodesCount,
     air_date |-> season_doc.airDate,
     poster_url |-> normalize_text(season_doc.poster),
     description |-> normalize_text(season_doc.description)]

\* INSERT INTO seasons ... ON CONFLICT (movie_id, season_number) DO UPDATE ... RETURNING id
\* (the sequence of seasons.id advances on a conflict too)
UpsertSeasonRowKeep(c, movie_id, number, season_doc) ==
    LET found == {r \in c.db.seasons : r.movie_id = movie_id /\ r.season_number = number}
        id == IF found # {} THEN PickRow(found).id ELSE c.seq.seasons + 1
    IN Return([c EXCEPT !.seq.seasons = @ + 1,
                        !.db.seasons = IF found # {} THEN @
                                       ELSE @ \cup {SeasonRow(id, movie_id, number, season_doc)},
                        !.stats.seasons_inserted = @ + 1], Some(id))

UpsertSeasonRow(c, movie_id, number, season_doc) ==
    LET found == {r \in c.db.seasons : r.movie_id = movie_id /\ r.season_number = number}
        id == IF found # {} THEN PickRow(found).id ELSE c.seq.seasons + 1
    IN Return([c EXCEPT !.seq.seasons = @ + 1,
                        !.db.seasons = (@ \ found) \cup {SeasonRow(id, movie_id, number, season_doc)},
                        !.stats.seasons_inserted = @ + 1], Some(id))

\* ep_num = as_int(ep.get("number")) or 0
EpisodeNumber(ep) == IF Falsy(ep.number) THEN 0 ELSE Val(ep.number)

EpisodeRow(season_id, ep) ==
    [season_id |-> season_id, episode_number |-> EpisodeNumber(ep), title |-> normalize_text(ep.name)]

\* execute_values of INSERT INTO episodes ... ON CONFLICT (season_id, episode_number) DO UPDATE;
\* one statement cannot touch the same row twice
UpsertEpisodes(c1, episodes, rejected) ==
    LET season_id == Val(c1.ret)
        keys == {EpisodeNumber(episodes[i]) : i \in 1..Len(episodes)}
    IN
    IF c1.exc # NoExc \/ episodes = <<>> THEN c1
    ELSE IF rejected THEN [RaiseDb(c1) EXCEPT !.fired = TRUE]
    ELSE IF Cardinality(keys) < Len(episodes) THEN RaiseDb(c1)
    ELSE [c1 EXCEPT !.db.episodes =
            {r \in @ : ~(r.season_id = season_id /\ r.episode_number \in keys)}
            \cup {EpisodeRow(season_id, episodes[i]) : i \in 1..Len(episodes)}]

upsert_season(c, season_doc) ==
    LET movie_id == season_doc.movieId
        number == IF Falsy(season_doc.number) THEN 1 ELSE Val(season_doc.number)
    IN
    IF Falsy(movie_id) THEN Return(c, None)
    ELSE IF c.aborted THEN RaiseDb(c)
    ELSE IF ~MovieExists(c, Val(movie_id)) THEN Return(c, None)
    ELSE IF season_doc.reject = "season" THEN [RaiseDb(c) EXCEPT !.fired = TRUE]
    ELSE IF ~ForeignKeyHolds(c, "movies", Val(movie_id)) THEN RaiseDb(c)
    ELSE UpsertEpisodes(UpsertSeasonRow(c, Val(movie_id), number, season_doc),
                        season_doc.episodes, season_doc.reject = "episodes")

Episode(number, name) == [number |-> number, name |-> name]

SeasonDoc(movieId, number, episodesCount, episodes, reject) ==
    [movieId |-> movieId, number |-> number, episodesCount |-> episodesCount,
     airDate |-> None, poster |-> None, description |-> None,
     episodes |-> episodes, reject |-> reject]

\* season documents of the movie the target holds (1), of movies it does not hold (2,
\* none), with and without episodes, documents whose write the store rejects, a
\* season numbered 0, and a second document of season 2 with other values
SeasonDocs ==
    {SeasonDoc(m, n, Some(2), eps, "none") :
        m \in {Some(1), Some(2)}, n \in {None, Some(2)},
        eps \in {<<>>, <<Episode(Some(1), Some(<<"e">>)), Episode(None, None)>>}}
    \cup {SeasonDoc(m, Some(1), None, <<Episode(Some(1), None), Episode(Some(1), Some(<<"e">>))>>, "none") :
            m \in {Some(1), Some(2)}}
    \cup {SeasonDoc(m, Some(1), Some(1), <<Episode(Some(1), None)>>, rj) :
            m \in {Some(1), Some(2)}, rj \in {"season", "episodes"}}
    \cup {SeasonDoc(None, Some(1), Some(1), <<>>, "none")}
    \cup {SeasonDoc(Some(1), Some(0), Some(2), <<Episode(Some(0), None)>>, "none")}
    \cup {[SeasonDoc(Some(1), Some(2), Some(3), <<Episode(Some(1), Some(<<"f">>))>>, "none")
              EXCEPT !.airDate = Some(2020), !.poster = Some(<<"p", " ">>),
                     !.description = Some(<<"d">>)]}

\* the movies the movie stage left in the target
SeasonMovie == [id |-> 1, title |-> Some(<<"a">>), alternative_name |-> None, en_name |-> None,
                year |-> Some(2024), rating_kp |-> Some(8)]

InitSeasons ==
    /\ pc = "s_doc"
    /\ \E commit_interval \in 1..MaxCommitInterval :
        /\ db = [EmptyDb EXCEPT !.movies = {SeasonMovie}]
        /\ durable = db
        /\ seq = [ZeroSeq EXCEPT !.movies = 1]
        /\ sp = None
        /\ aborted = FALSE
        /\ cache = EmptyCache
        /\ stats = [ZeroStats EXCEPT !.movies_inserted = 1]
        /\ es = NoEs
        /\ redis = NoRedis
        /\ hist = NoHist
        /\ doc = NoDoc
        /\ loop = [ZeroLoop EXCEPT !.COMMIT_INTERVAL = commit_interval]
        /\ shadow = [db |-> db, seq |-> seq, cache |-> cache, outcome |-> ""]

\* for season_doc in seasons_cursor: SAVEPOINT
SeasonSavepoint(d) ==
    /\ pc = "s_doc"
    /\ loop.fetched < MaxSeasonDocs
    /\ doc' = d
    /\ sp' = Some(db)
    /\ pc' = "s_try"
    /\ loop' = [loop EXCEPT !.fetched = @ + 1, !.docs_since_commit = @ + 1,
                            !.handled = Append(@, loop.fetched + 1)]
    /\ UNCHANGED <<db, durable, aborted, seq, cache, stats, es, redis, hist, shadow>>

\* the state after upsert_season and RELEASE SAVEPOINT, or after the exception
SeasonResult(r) ==
    /\ db' = r.db
    /\ seq' = r.seq
    /\ aborted' = r.aborted
    /\ cache' = r.cache
    /\ stats' = r.stats
    /\ hist' = r.hist
    /\ sp' = IF r.exc # NoExc THEN sp ELSE None
    /\ pc' = IF r.exc # NoExc THEN "s_except"
             ELSE IF loop.since_commit + (IF Falsy(r.ret) THEN 0 ELSE 1) >= loop.COMMIT_INTERVAL
                  THEN "s_commit" ELSE "s_doc"
    /\ loop' = [loop EXCEPT !.outcome = IF r.exc # NoExc THEN "raised"
                                        ELSE IF Falsy(r.ret) THEN "skipped" ELSE "released",
                            !.fired = r.fired,
                            !.inserted = IF r.exc = NoExc /\ ~Falsy(r.ret) THEN @ + 1 ELSE @,
                            !.since_commit = IF r.exc = NoExc /\ ~Falsy(r.ret) THEN @ + 1 ELSE @]

\* sid = pg.upsert_season(season_doc); if sid: ...; RELEASE SAVEPOINT
SeasonBody ==
    /\ pc = "s_try"
    /\ SeasonResult(upsert_season(RealCtx, doc))
    /\ UNCHANGED <<doc, durable, es, redis, shadow>>

\* if processed_since_commit >= COMMIT_INTERVAL: pg.conn.commit(), inside the try block
\* of the document: its exception goes to the except branch of the document
\* a commit that leaves processed_since_commit as it was
SeasonCommitKeepsCount(ok) ==
    /\ pc = "s_commit"
    /\ durable' = db
    /\ pc' = "s_doc"
    /\ loop' = [loop EXCEPT !.docs_since_commit = 0]
    /\ UNCHANGED <<doc, db, sp, aborted, seq, cache, stats, es, redis, hist, shadow>>

SeasonCommit(ok) ==
    /\ pc = "s_commit"
    /\ IF ok
       THEN /\ durable' = db
            /\ pc' = "s_doc"
            /\ hist' = hist
            /\ loop' = [loop EXCEPT !.since_commit = 0, !.docs_since_commit = 0]
       ELSE /\ durable' = durable
            /\ pc' = "s_except"
            /\ hist' = [hist EXCEPT !.commitFailed = TRUE]
            /\ loop' = loop
    /\ UNCHANGED <<doc, db, sp, aborted, seq, cache, stats, es, redis, shadow>>

\* except Exception: ROLLBACK TO SAVEPOINT; when that fails (the savepoint was released
\* before the commit) pg.conn.rollback() -- and the loop goes on
SeasonExcept ==
    /\ pc = "s_except"
    /\ db' = IF sp # None THEN RollbackToSavepoint(Val(sp), db) ELSE durable
    /\ aborted' = FALSE
    /\ sp' = None
    /\ pc' = "s_doc"
    /\ UNCHANGED <<doc, durable, seq, cache, stats, es, redis, loop, hist, shadow>>

\* the cursor is exhausted
SeasonCursorEnd ==
    /\ pc = "s_doc"
    /\ pc' = "s_final"
    /\ loop' = [loop EXCEPT !.final = TRUE]
    /\ UNCHANGED <<doc, db, durable, sp, aborted, seq, cache, stats, es, redis, hist, shadow>>

\* pg.conn.commit() after the loop
SeasonFinalCommit(ok) ==
    /\ pc = "s_final"
    /\ IF ok
       THEN /\ durable' = db
            /\ pc' = "done"
            /\ hist' = hist
       ELSE /\ durable' = durable
            /\ pc' = "raise"
            /\ hist' = [hist EXCEPT !.commitFailed = TRUE]
    /\ UNCHANGED <<doc, db, sp, aborted, seq, cache, stats, es, redis, loop, shadow>>

SeasonStage ==
    \/ \E d \in SeasonDocs : SeasonSavepoint(d)
    \/ SeasonBody
    \/ \E ok \in BOOLEAN : SeasonCommit(ok)
    \/ SeasonExcept
    \/ SeasonCursorEnd
    \/ \E ok \in BOOLEAN : SeasonFinalCommit(ok)

NextSeasons ==
    \/ SeasonStage
    \/ \E sinkOk \in BOOLEAN : Fatal(sinkOk)

SpecSeasons == InitSeasons /\ [][NextSeasons]_vars

----------------------------------------------------------------------------
(* The connections: PgRepo.connect, EsRepo.connect, RedisRepo.connect, and  *)
(* the run that follows them (an empty people collection, then the movies) *)

\* retries and delay of the three connect methods
retries == 12
delay == 5

\* a connect loop that never gives up
NeverExhausted(attempt) == FALSE

\* for attempt in range(1, retries + 1): this attempt is the last one
LastAttempt(attempt) == attempt >= retries

InitRun ==
    /\ pc = "pg_connect"
    /\ InitStores(FALSE, FALSE, FALSE, 1, 1)

\* one pass of the loop of PgRepo.connect; ok: psycopg2.connect and the session
\* settings succeed
PgConnectAttempt(ok) ==
    /\ pc = "pg_connect"
    /\ IF ok
       THEN /\ pc' = "es_connect"
            /\ loop' = [loop EXCEPT !.pg_attempt = 0, !.waited = 0]
       ELSE IF LastAttempt(loop.pg_attempt + 1)
       THEN /\ pc' = "no_pg"
            /\ loop' = [loop EXCEPT !.pg_attempt = @ + 1]
       ELSE /\ pc' = "pg_connect"
            /\ loop' = [loop EXCEPT !.pg_attempt = @ + 1, !.waited = @ + delay]
    /\ UNCHANGED <<doc, db, durable, sp, aborted, seq, cache, stats, es, redis, hist, shadow>>

\* one pass of the loop of EsRepo.connect.  outcome: "connected"; "no_client" (the
\* constructor raises); "no_answer" (self.client is assigned and info() raises)
EsConnectAttempt(outcome) ==
    /\ pc = "es_connect"
    /\ es' = IF outcome = "no_client" THEN es ELSE [es EXCEPT !.client = TRUE]
    /\ IF outcome = "connected"
       THEN /\ pc' = "redis_connect"
            /\ loop' = [loop EXCEPT !.sink_attempt = 0]
            /\ hist' = hist
       ELSE IF LastAttempt(loop.sink_attempt + 1)
       THEN /\ pc' = "redis_connect"
            /\ loop' = [loop EXCEPT !.sink_attempt = 0]
            /\ hist' = [hist EXCEPT !.esFailed = TRUE]
       ELSE /\ pc' = "es_connect"
            /\ loop' = [loop EXCEPT !.sink_attempt = @ + 1]
            /\ hist' = hist
    /\ UNCHANGED <<doc, db, durable, sp, aborted, seq, cache, stats, redis, shadow>>

\* one pass of the loop of RedisRepo.connect.  outcome: "connected"; "no_client"
\* (from_url raises); "no_answer" (self.client is assigned and ping() raises)
RedisConnectAttempt(outcome) ==
    /\ pc = "redis_connect"
    /\ redis' = IF outcome = "no_client" THEN redis ELSE [redis EXCEPT !.client = TRUE]
    /\ IF outcome = "connected"
       THEN /\ pc' = "m_fetch"
            /\ loop' = [loop EXCEPT !.sink_attempt = 0]
            /\ hist' = hist
       ELSE IF LastAttempt(loop.sink_attempt + 1)
       THEN /\ pc' = "m_fetch"
            /\ loop' = [loop EXCEPT !.sink_attempt = 0]
            /\ hist' = [hist EXCEPT !.redisFailed = TRUE]
       ELSE /\ pc' = "redis_connect"
            /\ loop' = [loop EXCEPT !.sink_attempt = @ + 1]
            /\ hist' = hist
    /\ UNCHANGED <<doc, db, durable, sp, aborted, seq, cache, stats, es, shadow>>

ConnectOutcomes == {"connected", "no_client", "no_answer"}

NextRun ==
    \/ \E ok \in BOOLEAN : PgConnectAttempt(ok)
    \/ \E outcome \in ConnectOutcomes : EsConnectAttempt(outcome)
    \/ \E outcome \in ConnectOutcomes : RedisConnectAttempt(outcome)
    \/ MovieStage
    \/ \E sinkOk \in BOOLEAN : Fatal(sinkOk)

SpecRun == InitRun /\ [][NextRun]_vars

----------------------------------------------------------------------------
(* The value normalizers, each called on one value of the document store.   *)
(* A value is a tagged tuple:                                               *)
(*   <<"none">>  <<"int", n>>  <<"float", tenths>>  <<"str", text>>         *)
(*   <<"list", length>>  <<"dict", key, value>> (a map with one key)        *)
(*   <<"datetime", seconds, tzinfo>> (tzinfo: None, or Some(offset))        *)
(* and a call that raises returns <<"raise">>.  Floats are kept in tenths;  *)
(* the text of a date is a sequence of chunks (date-time, then offset).     *)

DigitChars == <<"0", "1", "2", "3", "4", "5", "6", "7", "8", "9">>

RECURSIVE Digits(_)
Digits(n) == IF n < 10 THEN <<DigitChars[n + 1]>>
             ELSE Digits(n \div 10) \o <<DigitChars[(n % 10) + 1]>>

\* str(value)
Str(v) ==
    CASE v[1] = "str" -> v[2]
      [] v[1] = "int" -> (IF v[2] < 0 THEN <<"-">> ELSE <<>>) \o Digits(IF v[2] < 0 THEN -v[2] ELSE v[2])
      [] v[1] = "float" ->
            LET t == IF v[2] < 0 THEN -v[2] ELSE v[2] IN
            (IF v[2] < 0 THEN <<"-">> ELSE <<>>) \o Digits(t \div 10) \o <<".">> \o Digits(t % 10)
      [] v[1] = "none" -> <<"N", "o", "n", "e">>
      [] v[1] = "list" -> <<"[", "]">>
      [] v[1] = "dict" -> <<"{", "}">>
      [] OTHER -> <<"1970-01-01 00:00:00">>

\* the number written by a text of digits; None when it is empty or holds another character
RECURSIVE NatOf(_)
NatOf(s) ==
    IF s = <<>> \/ \E i \in 1..Len(s) : \A d \in 1..10 : DigitChars[d] # s[i] THEN None
    ELSE LET last == (CHOOSE d \in 1..10 : DigitChars[d] = s[Len(s)]) - 1 IN
         IF Len(s) = 1 THEN Some(last)
         ELSE Some(Val(NatOf(SubSeq(s, 1, Len(s) - 1))) * 10 + last)

\* int(text): None stands for ValueError
ToInt(text) ==
    LET s == strip(text)
        signed == s # <<>> /\ s[1] \in {"-", "+"}
        n == NatOf(IF signed THEN Tail(s) ELSE s)
    IN IF n = None THEN None
       ELSE Some(IF s[1] = "-" THEN -Val(n) ELSE Val(n))

\* float(text), in tenths: None stands for ValueError
ToFloat(text) ==
    LET s == strip(text)
        signed == s # <<>> /\ s[1] \in {"-", "+"}
        body == IF signed THEN Tail(s) ELSE s
        dots == {i \in 1..Len(body) : body[i] = "."}
        k == CHOOSE i \in dots : TRUE
        whole == IF dots = {} THEN body ELSE SubSeq(body, 1, k - 1)
        frac == IF dots = {} THEN <<>> ELSE SubSeq(body, k + 1, Len(body))
        tenths == (IF whole = <<>> THEN 0 ELSE Val(NatOf(whole))) * 10
                  + (IF frac = <<>> THEN 0 ELSE Val(NatOf(<<frac[1]>>)))
    IN IF Cardinality(dots) > 1 \/ (whole = <<>> /\ frac = <<>>)
          \/ (whole # <<>> /\ NatOf(whole) = None) \/ (frac # <<>> /\ NatOf(frac) = None)
       THEN None
       ELSE Some(IF signed /\ s[1] = "-" THEN -tenths ELSE tenths)

\* text.replace(old, new)
Replace(text, old, new) == [i \in 1..Len(text) |-> IF text[i] = old THEN new ELSE text[i]]

as_int(value) ==
    LET trunc(t) == IF t >= 0 THEN t \div 10 ELSE -((-t) \div 10)
        of_text(text) == LET f == ToFloat(Replace(text, ",", ".")) IN
                         IF f = None THEN <<"none">> ELSE <<"int", trunc(Val(f))>>
    IN CASE value[1] = "none" -> <<"none">>
         [] value[1] = "dict" ->
                IF value[2] \in {"$numberInt", "$numberLong", "$numberDouble"}
                THEN of_text(Str(value[3])) ELSE <<"none">>
         [] value[1] = "str" -> of_text(value[2])
         [] value[1] = "int" -> value
         [] value[1] = "float" -> <<"int", trunc(value[2])>>
         [] OTHER -> <<"none">>

as_float(value) ==
    LET of_text(text) == LET f == ToFloat(Replace(text, ",", ".")) IN
                         IF f = None THEN <<"none">> ELSE <<"float", Val(f)>>
    IN CASE value[1] = "none" -> <<"none">>
         [] value[1] = "dict" ->
                IF value[2] \in {"$numberDouble", "$numberDecimal", "$numberInt", "$numberLong"}
                THEN of_text(Str(value[3])) ELSE <<"none">>
         [] value[1] = "str" -> of_text(value[2])
         [] value[1] = "int" -> <<"float", value[2] * 10>>
         [] value[1] = "float" -> value
         [] OTHER -> <<"none">>

\* normalize_text on any value: str(value).strip()
NormalizeValue(value) ==
    IF value[1] = "none" THEN <<"none">>
    ELSE LET s == normalize_text(Some(Str(value))) IN
         IF s = None THEN <<"none">> ELSE <<"str", Val(s)>>

\* truncate_text on any value: len(value) and value[:max_length]
TruncateValue(value, max_length) ==
    CASE value[1] = "none" -> <<"none">>
      [] value[1] = "str" -> <<"str", Val(truncate_text(Some(value[2]), max_length))>>
      [] value[1] = "list" -> IF value[2] > max_length THEN <<"list", max_length>> ELSE value
      [] value[1] = "dict" -> IF 1 > max_length THEN <<"raise">> ELSE value
      [] OTHER -> <<"raise">>

\* a sanitizer that clamps an out-of-range year to the nearer bound
ClampYear(value) ==
    CASE value[1] = "none" -> <<"none">>
      [] value[1] = "int" -> IF value[2] < 1800 THEN <<"int", 1800>>
                             ELSE IF value[2] > 2100 THEN <<"int", 2100>> ELSE value
      [] value[1] = "float" -> IF 18000 <= value[2] /\ value[2] <= 21000 THEN value ELSE <<"none">>
      [] OTHER -> <<"raise">>

sanitize_year(value) ==
    CASE value[1] = "none" -> <<"none">>
      [] value[1] = "int" -> IF 1800 <= value[2] /\ value[2] <= 2100 THEN value ELSE <<"none">>
      [] value[1] = "float" -> IF 18000 <= value[2] /\ value[2] <= 21000 THEN value ELSE <<"none">>
      [] OTHER -> <<"raise">>

sanitize_age_rating(value) ==
    CASE value[1] = "none" -> <<"none">>
      [] value[1] = "int" -> IF 0 <= value[2] /\ value[2] <= 21 THEN value ELSE <<"none">>
      [] value[1] = "float" -> IF 0 <= value[2] /\ value[2] <= 210 THEN value ELSE <<"none">>
      [] OTHER -> <<"raise">>

sanitize_rating(value) ==
    LET converted == IF value[1] # "str" THEN value
                     ELSE LET f == ToFloat(Replace(value[2], ",", ".")) IN
                          IF f = None THEN <<"raise">> ELSE <<"float", Val(f)>>
    IN CASE value[1] = "none" -> <<"none">>
         [] converted[1] = "raise" -> <<"none">>
         [] converted[1] = "int" ->
                IF 0 <= converted[2] /\ converted[2] <= 10 THEN converted ELSE <<"none">>
         [] converted[1] = "float" ->
                IF 0 <= converted[2] /\ converted[2] <= 100 THEN converted ELSE <<"none">>
         [] OTHER -> <<"raise">>

\* datetime.fromisoformat: a date-time chunk, then at most one offset chunk
fromisoformat(text) ==
    LET wall == CASE text[1] = "1970-01-01T00:00:00" -> Some(0)
                  [] text[1] = "1970-01-01T01:00:00" -> Some(3600)
                  [] text[1] = "1970-01-02" -> Some(86400)
                  [] OTHER -> None
        offset == CASE text[2] = "+00:00" -> Some(0)
                    [] text[2] = "+01:00" -> Some(3600)
                    [] OTHER -> None
    IN IF text = <<>> \/ Len(text) > 2 \/ wall = None THEN <<"raise">>
       ELSE IF Len(text) = 1 THEN <<"datetime", Val(wall), None>>
       ELSE IF offset = None THEN <<"raise">>
       ELSE <<"datetime", Val(wall), offset>>

parse_mongo_date(value) ==
    LET iso(text) == LET d == fromisoformat(Replace(text, "Z", "+00:00")) IN
                     IF d[1] = "raise" THEN <<"none">> ELSE d
        inner == value[3]
        millis == CASE inner[3][1] = "int" -> Some(inner[3][2])
                    [] inner[3][1] = "float" -> Some(as_int(inner[3])[2])
                    [] inner[3][1] = "str" -> ToInt(inner[3][2])
                    [] OTHER -> None
    IN CASE value[1] = "none" -> <<"none">>
         [] value[1] = "datetime" ->
                IF value[3] # None THEN value ELSE <<"datetime", value[2], Some(0)>>
         [] value[1] = "dict" /\ value[2] = "$date" ->
                IF inner[1] = "str" THEN iso(inner[2])
                ELSE IF inner[1] = "dict" /\ inner[2] = "$numberLong"
                     THEN IF millis = None THEN <<"none">>
                          ELSE <<"datetime", Val(millis) \div 1000, Some(0)>>
                     ELSE <<"none">>
         [] value[1] = "str" -> iso(value[2])
         [] OTHER -> <<"none">>

Values ==
    {<<"none">>, <<"list", 0>>, <<"list", 2>>}
    \cup {<<"int", n>> : n \in {-1, 0, 7, 10, 11, 21, 22, 1799, 1800, 2024, 2100, 2101}}
    \cup {<<"float", t>> : t \in {-1, 0, 74, 100, 101, 20245}}
    \cup {<<"str", s>> : s \in {<<>>, <<" ">>, <<"7", ",", "4">>, <<"7", ".", "4">>, <<" ", "1", "2">>,
                                <<"-", "3">>, <<"2", "0", "2", "4">>, <<"a", "b", "c">>,
                                <<"1970-01-01T00:00:00">>, <<"1970-01-01T00:00:00", "Z">>,
                                <<"1970-01-01T01:00:00", "+01:00">>, <<"1970-01-02">>,
                                <<"1970-01-01T00:00:00", "UTC">>}}
    \cup {<<"datetime", 0, None>>, <<"datetime", 0, Some(0)>>, <<"datetime", 3600, Some(3600)>>}
    \cup {<<"dict", "$date", inner>> :
            inner \in {<<"str", <<"1970-01-01T00:00:00", "Z">>>>, <<"str", <<"1970-01-01T00:00:00">>>>,
                       <<"str", <<"a", "b", "c">>>>, <<"int", 3600000>>,
                       <<"dict", "$numberLong", <<"str", <<"3", "6", "0", "0", "0", "0", "0">>>>>>,
                       <<"dict", "$numberLong", <<"int", 0>>>>,
                       <<"dict", "$numberLong", <<"str", <<"7", ".", "4">>>>>>,
                       <<"dict", "$numberInt", <<"int", 0>>>>}}
    \cup {<<"dict", "$numberInt", <<"str", <<"1", "2">>>>>>,
          <<"dict", "$numberDouble", <<"str", <<"7", ",", "4">>>>>>,
          <<"dict", "$numberDecimal", <<"float", 74>>>>,
          <<"dict", "name", <<"str", <<"a">>>>>>}

InitValues ==
    /\ pc = "v_call"
    /\ doc \in Values
    /\ db = EmptyDb /\ durable = db /\ seq = ZeroSeq /\ sp = None /\ aborted = FALSE
    /\ cache = EmptyCache /\ stats = ZeroStats /\ es = NoEs /\ redis = NoRedis
    /\ hist = NoHist /\ loop = ZeroLoop
    /\ shadow = [db |-> db, seq |-> seq, cache |-> cache, outcome |-> ""]

\* one call of a normalizer on the value
Call(name, result) ==
    /\ pc = "v_call"
    /\ pc' = "v_return"
    /\ loop' = [loop EXCEPT !.called = name, !.ret = result]
    /\ UNCHANGED <<doc, db, durable, sp, aborted, seq, cache, stats, es, redis, hist, shadow>>

CallAsInt == Call("as_int", as_int(doc))
CallAsFloat == Call("as_float", as_float(doc))
CallNormalizeText == Call("normalize_text", NormalizeValue(doc))
CallTruncateText(max_length) == Call("truncate_text", TruncateValue(doc, max_length))
CallSanitizeYear == Call("sanitize_year", sanitize_year(doc))
CallSanitizeAgeRating == Call("sanitize_age_rating", sanitize_age_rating(doc))
CallSanitizeRating == Call("sanitize_rating", sanitize_rating(doc))
CallParseMongoDate == Call("parse_mongo_date", parse_mongo_date(doc))

NextValues ==
    \/ CallAsInt
    \/ CallAsFloat
    \/ CallNormalizeText
    \/ \E max_length \in 0..2 : CallTruncateText(max_length)
    \/ CallSanitizeYear
    \/ CallSanitizeAgeRating
    \/ CallSanitizeRating
    \/ CallParseMongoDate

SpecValues == InitValues /\ [][NextValues]_vars

----------------------------------------------------------------------------
(* The last batch of the movie stage, holding one document with a cast list *)
(* or a distributor                                                         *)

MaxCast == 3

Cast(name, enProfession, description) ==
    [PersonShape(None, None, None, <<>>, enProfession, FALSE)
        EXCEPT !.name = name, !.description = description]

CastPool ==
    {Cast(Some(T_ivan), Some(<<"A">> \o Tail(W_actor)), Some(<<"x">>)),
     Cast(Some(T_ivan), Some(W_actor), Some(<<"x", " ">>)),
     Cast(None, Some(W_actor), None),
     Cast(Some(<<"B">>), Some(<<"O">> \o Tail(W_operator)), None),
     Cast(Some(<<"B">>), Some(W_cinematographer), None),
     Cast(Some(<<"B">>), Some(<<"D">> \o Tail(W_designer)), None),
     Cast(Some(<<"B">>), Some(W_production_designer), None),
     Cast(Some(<<"C">>), Some(<<"s", "t", "u", "n", "t">>), None),
     Cast(Some(<<"C">>), None, None)}

RECURSIVE CastLists(_)
CastLists(n) ==
    IF n = 0 THEN {<<>>}
    ELSE CastLists(n - 1) \cup {Append(l, p) : l \in {m \in CastLists(n - 1) : Len(m) = n - 1},
                                               p \in CastPool}

LinkDocs ==
    {MovieDoc(None, TitleA, [RefsNone EXCEPT !.persons = l], "none") : l \in CastLists(MaxCast)}
    \cup {MovieDoc(None, TitleA, [RefsNone EXCEPT !.distributor = d, !.premiere_russia = ru,
                                                  !.premiere_world = w], "none") :
            d \in {None, Some(<<" ">>), Some(T_kino)}, ru \in {None, Some(2000)},
            w \in {None, Some(2001)}}
    \cup {MovieDoc(None, TitleA, [RefsNone EXCEPT !.persons = <<p>>], "people") : p \in CastPool}

InitLinks ==
    /\ pc = "m_doc"
    /\ \E prior \in BOOLEAN :
        /\ db = IF prior THEN PriorDb ELSE EmptyDb
        /\ seq = IF prior THEN PriorSeq ELSE ZeroSeq
    /\ durable = db /\ sp = None /\ aborted = FALSE
    /\ cache = EmptyCache /\ stats = ZeroStats /\ es = NoEs /\ redis = NoRedis
    /\ hist = NoHist /\ doc = NoDoc
    /\ loop = [ZeroLoop EXCEPT !.fetched = 1, !.batchLen = 1, !.final = TRUE, !.batch = <<1>>]
    /\ shadow = [db |-> db, seq |-> seq, cache |-> cache, outcome |-> ""]

NextLinks ==
    \/ \E d \in LinkDocs : MovieSavepoint(d)
    \/ \E sinkOk \in BOOLEAN : MovieBody(sinkOk)
    \/ MovieExcept
    \/ MovieBatchReturn
    \/ \E ok \in BOOLEAN : MovieCommit(ok)
    \/ \E sinkOk \in BOOLEAN : MovieFlush(sinkOk)
    \/ \E sinkOk \in BOOLEAN : Fatal(sinkOk)

SpecLinks == InitLinks /\ [][NextLinks]_vars

----------------------------------------------------------------------------
(* The three stages of seed_from_mongo in one run: people, movies, seasons *)

StagePeople ==
    {PersonDoc(Some(T_ivan), None, None, <<>>, FALSE),
     PersonDoc(Some(<<"A">>), Some(T_p1), None, <<>>, TRUE)}

StageMovies ==
    {MovieDoc(Some(1), TitleA, RefsNone, "none"),
     MovieDoc(None, BlankTitle, RefsFull, "none"),
     MovieDoc(None, TitleA, RefsFull, "facts")}

StageSeasons ==
    {SeasonDoc(Some(1), Some(2), Some(2), <<>>, "none"),
     SeasonDoc(Some(1), Some(1), Some(1), <<Episode(Some(1), None)>>, "season"),
     SeasonDoc(Some(2), None, Some(2), <<>>, "none")}

PeoplePcs == {"p_begin", "p_fetch", "p_doc", "p_try", "p_except", "p_commit"}
MoviePcs == {"m_fetch", "m_doc", "m_try", "m_except", "m_commit", "m_flush"}
SeasonPcs == {"s_doc", "s_try", "s_except", "s_commit", "s_final"}

\* a movie row of an earlier run, left in the target when FULL_CLEAN is off or the
\* TRUNCATE of the cleanup failed
EarlierMovie == [SeasonMovie EXCEPT !.id = 2]

InitStages ==
    /\ pc = "p_begin"
    /\ \E batch_size \in 1..MaxBatchSize, commit_interval \in 1..MaxCommitInterval,
          FULL_CLEAN \in BOOLEAN :
        /\ db = IF FULL_CLEAN THEN EmptyDb ELSE [EmptyDb EXCEPT !.movies = {EarlierMovie}]
        /\ seq = IF FULL_CLEAN THEN ZeroSeq ELSE [ZeroSeq EXCEPT !.movies = 2]
        /\ durable = db /\ sp = None /\ aborted = FALSE
        /\ cache = EmptyCache /\ stats = ZeroStats /\ es = NoEs /\ redis = NoRedis
        /\ hist = NoHist /\ doc = NoDoc
        /\ loop = [ZeroLoop EXCEPT !.BATCH_SIZE = batch_size, !.COMMIT_INTERVAL = commit_interval,
                                   !.stage = "people"]
        /\ shadow = [db |-> db, seq |-> seq, cache |-> cache, outcome |-> ""]

\* the locals of the next stage: its cursor, its batch, its counters
StageLocals(stage) ==
    [loop EXCEPT !.stage = stage, !.fetched = 0, !.batchLen = 0, !.idx = 0, !.final = FALSE,
                 !.inserted = 0, !.skipped = 0, !.total = 0, !.since_commit = 0,
                 !.docs_since_commit = 0, !.outcome = "", !.fired = FALSE, !.prior = {},
                 !.batch = <<>>, !.handled = <<>>]

\* a movie stage entered from the commit of a people batch, the people cursor not exhausted
MoviesBeginEarly ==
    /\ loop.stage = "people"
    /\ pc = "p_commit"
    /\ pc' = "m_fetch"
    /\ loop' = StageLocals("movies")
    /\ UNCHANGED <<doc, db, durable, sp, aborted, seq, cache, stats, es, redis, hist, shadow>>

\* the people loop is over: movies_cursor = col_movies.find(...)
MoviesBegin ==
    /\ loop.stage = "people"
    /\ pc = "done"
    /\ pc' = "m_fetch"
    /\ loop' = StageLocals("movies")
    /\ UNCHANGED <<doc, db, durable, sp, aborted, seq, cache, stats, es, redis, hist, shadow>>

\* the movie loop is over: seasons_cursor = col_seasons.find(...)
SeasonsBegin ==
    /\ loop.stage = "movies"
    /\ pc = "done"
    /\ pc' = "s_doc"
    /\ loop' = StageLocals("seasons")
    /\ UNCHANGED <<doc, db, durable, sp, aborted, seq, cache, stats, es, redis, hist, shadow>>

NextStages ==
    \/ PeopleBegin
    \/ PeopleFetch
    \/ PeopleCursorEnd
    \/ \E d \in StagePeople : PeopleSavepoint(d)
    \/ PeopleBody
    \/ PeopleExcept
    \/ PeopleBatchReturn
    \/ \E ok \in BOOLEAN : PeopleCommit(ok)
    \/ MoviesBegin
    \/ MovieFetch
    \/ MovieCursorEnd
    \/ \E d \in StageMovies : MovieSavepoint(d)
    \/ \E sinkOk \in BOOLEAN : MovieBody(sinkOk)
    \/ MovieExcept
    \/ MovieBatchReturn
    \/ \E ok \in BOOLEAN : MovieCommit(ok)
    \/ \E sinkOk \in BOOLEAN : MovieFlush(sinkOk)
    \/ SeasonsBegin
    \/ \E d \in StageSeasons : SeasonSavepoint(d)
    \/ SeasonBody
    \/ \E ok \in BOOLEAN : SeasonCommit(ok)
    \/ SeasonExcept
    \/ SeasonCursorEnd
    \/ \E ok \in BOOLEAN : SeasonFinalCommit(ok)
    \/ \E sinkOk \in BOOLEAN : Fatal(sinkOk)

SpecStages == InitStages /\ [][NextStages]_vars

----------------------------------------------------------------------------
(* The distributor resolver called for the distributors of successive movies *)

MaxResolves == 3

DistributorNames == {Some(<<"a">>), Some(<<"a", ":", "b">>), Some(<<" ">>)}
ReleaseNames == {None, Some(<<"c">>), Some(<<"b", ":", "c">>)}

InitDistributors ==
    /\ pc = "d_call"
    /\ db = EmptyDb /\ durable = db /\ seq = ZeroSeq /\ sp = None /\ aborted = FALSE
    /\ cache = EmptyCache /\ stats = ZeroStats /\ es = NoEs /\ redis = NoRedis
    /\ hist = NoHist /\ doc = NoDoc /\ loop = ZeroLoop
    /\ shadow = [db |-> db, seq |-> seq, cache |-> cache, outcome |-> ""]

\* distributor_id = pg.upsert_distributor(d_name, d_release)
ResolveDistributor(distributor, distributorRelease) ==
    /\ pc = "d_call"
    /\ loop.fetched < MaxResolves
    /\ LET r == upsert_distributor(RealCtx, normalize_text(distributor),
                                   normalize_text(distributorRelease))
       IN /\ db' = r.db /\ seq' = r.seq /\ cache' = r.cache /\ stats' = r.stats
          /\ hist' = r.hist
          /\ loop' = [loop EXCEPT !.fetched = @ + 1,
                                  !.ret = IF r.ret = None THEN <<"none">> ELSE <<"int", Val(r.ret)>>]
    /\ UNCHANGED <<pc, doc, durable, sp, aborted, es, redis, shadow>>

NextDistributors ==
    \E d \in DistributorNames, rel \in ReleaseNames : ResolveDistributor(d, rel)

SpecDistributors == InitDistributors /\ [][NextDistributors]_vars

----------------------------------------------------------------------------
(* The two batched stages, each started on its own *)

InitBatched == Init \/ InitPeople

NextBatched ==
    \/ MovieStage
    \/ PeopleStage
    \/ \E sinkOk \in BOOLEAN : Fatal(sinkOk)

SpecBatched == InitBatched /\ [][NextBatched]_vars

----------------------------------------------------------------------------
(* Properties of the movie stage *)

Blank(v) == v = None \/ strip(Val(v)) = <<>>

AllBlank(movie) == Blank(movie.name) /\ Blank(movie.alternativeName) /\ Blank(movie.enName)

RowsOfId(id) == {r \in db.movies : r.id = id}

\* C1: a well-formed movie document that loads when the documents whose write the
\* store rejects are absent from the run also loads when they are present
C1_FailureDoesNotSpread ==
    (pc \in {"m_doc", "m_except"} /\ ~loop.fired /\ shadow.outcome = "released")
        => loop.outcome = "released"

\* C2: the except branch leaves the tables as they were at the document's savepoint
\* (no row of the document, every row of earlier documents) and counts one skip
C2_RollbackIsolates ==
    [][pc = "m_except" => /\ db' = Val(sp)
                          /\ loop'.skipped = loop.skipped + 1
                          /\ loop'.inserted = loop.inserted
                          /\ pc' = "m_doc"]_vars

\* a document failed after an earlier document of the batch was loaded: the earlier
\* document's rows are there, the failed document's rows are not
C2_Witness ==
    /\ pc = "m_doc"
    /\ loop.outcome = "raised"
    /\ loop.idx = 2
    /\ loop.inserted = 1
    /\ loop.skipped = 1
    /\ doc.id = None
    /\ Cardinality(db.movies) = 1
    /\ seq.movies = 2

\* C4: every natural key resolves to one identifier during the run, and at most one
\* row is created for it, whatever documents succeed or are rolled back in between
C4_ResolverStable ==
    /\ \A a \in hist.returned, b \in hist.returned : (a[1] = b[1] /\ a[2] = b[2]) => a[3] = b[3]
    /\ \A a \in hist.created, b \in hist.created : (a[1] = b[1] /\ a[2] = b[2]) => a[3] = b[3]

\* the country was created by a document that was rolled back, and resolved again by
\* the next document
C4_Witness ==
    /\ pc = "m_doc"
    /\ loop.idx = 2
    /\ loop.skipped = 2
    /\ ~loop.fired
    /\ <<"countries", T_ru, 1>> \in hist.created
    /\ db.countries = {}
    /\ stats.countries_created = 1

\* C7: once a document with an explicit id has written its core row, the movies table
\* holds exactly one row with that id, and its columns are those of the document
C7_UpsertOverwrites ==
    (pc = "m_doc" /\ doc # NoDoc /\ loop.outcome \in {"released", "skipped"}
        /\ doc.id # None /\ ~AllBlank(doc))
        => RowsOfId(Val(doc.id)) = {MovieRow(Val(doc.id), doc)}

\* the second of two documents with the same id and different columns was loaded
C7_Witness ==
    /\ pc = "m_doc"
    /\ doc # NoDoc
    /\ loop.outcome = "released"
    /\ doc.id = Some(1)
    /\ loop.prior # {}
    /\ loop.prior # {MovieRow(1, doc)}
    /\ RowsOfId(1) = {MovieRow(1, doc)}

C10_NoTitleSkipped ==
    [][(pc = "m_try" /\ AllBlank(doc))
        => /\ db' = db /\ seq' = seq /\ cache' = cache /\ stats' = stats
           /\ es' = es /\ redis' = redis /\ aborted' = aborted
           /\ loop'.skipped = loop.skipped + 1
           /\ loop'.inserted = loop.inserted
           /\ loop'.idx = loop.idx + 1
           /\ sp' = None
           /\ pc' = "m_doc"]_vars

\* a document without a title was skipped after another was loaded, and the batch
\* goes on
C10_Witness ==
    /\ pc = "m_doc"
    /\ doc # NoDoc
    /\ AllBlank(doc)
    /\ loop.outcome = "skipped"
    /\ loop.inserted = 1
    /\ loop.skipped = 1
    /\ Cardinality(db.movies) = 1
    /\ stats.movies_inserted + stats.movies_updated = 1

----------------------------------------------------------------------------
(* Properties of the people stage *)

PersonFields == {"photo_url", "birth_date", "death_date", "birth_place"}

\* the value a person document brings for a column of the people table
Incoming(person, f) ==
    CASE f = "photo_url" -> IF Blank(person.photo) THEN None ELSE Some(strip(Val(person.photo)))
      [] f = "birth_date" -> person.birthday
      [] f = "death_date" -> person.death
      [] f = "birth_place" -> BirthPlace(person)

\* C5: a person document leaves every non-null stored photo, birth date, death date and
\* birthplace of every person row as it was, whatever value the document carries
C5_StoredValueKept ==
    [][pc = "p_try" =>
        \A r \in db.people : \E r2 \in db'.people :
            /\ r2.id = r.id
            /\ \A f \in PersonFields : r[f] # None => r2[f] = r[f]]_vars

\* C6: a person document that carries no value for photo, birth date, death date or
\* birthplace leaves the non-null stored value of that column as it was
C6_NullKeepsStored ==
    [][pc = "p_try" =>
        \A r \in db.people : \E r2 \in db'.people :
            /\ r2.id = r.id
            /\ \A f \in PersonFields :
                (r[f] # None /\ Incoming(doc, f) = None) => r2[f] = r[f]]_vars

\* a document without a photo matched the stored person, whose photo is still there
C6_Witness ==
    /\ pc = "p_doc"
    /\ doc # NoDoc
    /\ loop.outcome = "released"
    /\ doc.name = Some(T_ivan)
    /\ Incoming(doc, "photo_url") = None
    /\ Incoming(doc, "birth_date") # None
    /\ stats.people_updated = 1
    /\ \E r \in db.people : r.id = PriorPerson.id /\ r.photo_url = PriorPerson.photo_url
                            /\ r.birth_date = doc.birthday

----------------------------------------------------------------------------
(* Properties of the season stage *)

\* C3: after a commit has failed the run is on its way out: no further document is
\* processed and the run does not end with a success report
C3_CommitFailureFatal == hist.commitFailed => pc \notin {"s_try", "done"}

Orphan(season_doc) ==
    /\ ~Falsy(season_doc.movieId)
    /\ ~\E r \in db.movies : r.id = Val(season_doc.movieId)

\* C9: a season document of a movie the target does not hold writes nothing, raises
\* nothing, and leaves everything a later document's outcome depends on (tables,
\* sequences, counters, position in the commit interval) as it was
C9_OrphanSeasonSkipped ==
    [][(pc = "s_try" /\ Orphan(doc))
        => /\ db' = db /\ seq' = seq /\ stats' = stats /\ cache' = cache
           /\ aborted' = aborted /\ durable' = durable
           /\ loop'.since_commit = loop.since_commit
           /\ loop'.inserted = loop.inserted
           /\ loop'.outcome = "skipped"
           /\ pc' \in {"s_doc", "s_commit"}]_vars

\* a season of an unknown movie was skipped after a season of a known movie was written
C9_Witness ==
    /\ pc \in {"s_doc", "s_commit"}
    /\ doc # NoDoc
    /\ Orphan(doc)
    /\ Len(doc.episodes) > 0
    /\ loop.outcome = "skipped"
    /\ loop.fetched = 2
    /\ loop.inserted = 1
    /\ Cardinality(db.seasons) = 1
    /\ stats.seasons_inserted = 1

----------------------------------------------------------------------------
(* Properties of the scalar fields of a movie document *)

\* a document with scalar fields only, none of whose writes the store rejects
ScalarsOnly(movie) ==
    /\ movie.reject = "none"
    /\ movie.countries = <<>> /\ movie.genres = <<>> /\ movie.persons = <<>>
    /\ movie.facts = <<>> /\ movie.videos = <<>> /\ movie.distributor = None

\* C11: a movie document with a usable title gets its core row and is not skipped,
\* whatever the shape of its rating
C11_TitleSuffices ==
    (pc \in {"m_doc", "m_except"} /\ doc # NoDoc /\ ~AllBlank(doc) /\ ScalarsOnly(doc))
        => /\ loop.outcome = "released"
           /\ \E r \in db.movies : r.title = Title(doc)

----------------------------------------------------------------------------
(* Properties of the sinks *)

Committed(movie_id) == \E r \in durable.movies : r.id = movie_id

\* C12: every movie that reached the search index or the cache has its row in the
\* committed tables
C12_SinksAfterCommit ==
    /\ \A movie_id \in es.indexed : Committed(movie_id)
    /\ \A entry \in redis.cached : Committed(entry.id)

\* what the try block of the document does to the relational side when no sink fails
SinksFine == MovieTry(RealCtx, doc, TRUE)

\* C13: whether the sinks fail or not, the try block of a document leaves the same
\* tables, the same transaction state, the same outcome and the same inserted and
\* skipped counts, and the flush after a commit changes nothing relational
C13_SinkFailureHarmless ==
    [][/\ pc = "m_try" =>
            /\ db' = SinksFine.db
            /\ aborted' = SinksFine.aborted
            /\ seq' = SinksFine.seq
            /\ stats' = SinksFine.stats
            /\ loop'.outcome = SinksFine.outcome
            /\ loop'.inserted = loop.inserted + (IF SinksFine.counted THEN 1 ELSE 0)
            /\ loop'.skipped = loop.skipped + (IF SinksFine.outcome = "skipped" THEN 1 ELSE 0)
       /\ pc = "m_flush" =>
            /\ pc' \in {"m_fetch", "done"}
            /\ db' = db /\ durable' = durable /\ loop' = loop /\ stats' = stats]_vars

\* the bulk flush triggered by the last document failed (the buffer was dropped and
\* nothing reached the index), and the documents are loaded all the same
C13_Witness ==
    /\ pc = "m_doc"
    /\ es.client
    /\ loop.outcome = "released"
    /\ loop.inserted = ES_BULK_SIZE
    /\ loop.skipped = 0
    /\ es.buffer = <<>>
    /\ es.indexed = {}
    /\ Cardinality(db.movies) = ES_BULK_SIZE

----------------------------------------------------------------------------
(* Properties of the connections *)

\* C14: a sink whose connection attempts all failed is left without a client, and
\* nothing is buffered for it or sent to it during the run
C14_NoSinkWithoutConnection ==
    /\ hist.esFailed => (~es.client /\ es.buffer = <<>> /\ ~es.tried)
    /\ hist.redisFailed => (~redis.client /\ redis.pipeline = <<>> /\ ~redis.tried)

\* C15: PgRepo.connect makes at most 12 attempts, sleeps the same delay after each
\* failed attempt but the last, and ends either connected or, after the 12th failure,
\* with the run stopped before any document was fetched
C15_ConnectBounded ==
    /\ [](pc = "pg_connect" => loop.pg_attempt < retries)
    /\ [](pc = "no_pg" => /\ loop.pg_attempt = retries
                          /\ loop.waited = delay * (retries - 1)
                          /\ loop.fetched = 0 /\ doc = NoDoc /\ db = durable)
    /\ [][/\ pc = "pg_connect" =>
                \/ pc' = "es_connect"
                \/ pc' = "no_pg"
                \/ /\ pc' = "pg_connect"
                   /\ loop'.pg_attempt = loop.pg_attempt + 1
                   /\ loop'.waited = loop.waited + delay
          /\ pc # "no_pg"]_vars

\* the twelfth attempt failed and the run stopped
C15_Witness ==
    /\ pc = "no_pg"
    /\ loop.pg_attempt = 12
    /\ loop.waited = 55
    /\ db.movies = {}

----------------------------------------------------------------------------
(* Properties of the stage switches *)

\* C16: with SKIP_PEOPLE set, the people stage fetches no document and changes
\* neither the database nor the counters
C16_SkippedStageIdle ==
    loop.SKIP_PEOPLE => /\ loop.fetched = 0
                        /\ doc = NoDoc
                        /\ db = durable
                        /\ stats = ZeroStats

----------------------------------------------------------------------------
(* Properties of the person links *)

\* C17: when the bulk insert of a movie's person links fails, the movie is still
\* loaded: its savepoint is released and its row is in the table
C17_FallbackKeepsMovie ==
    (pc \in {"m_doc", "m_except"} /\ doc # NoDoc /\ doc.reject = "people" /\ loop.fired)
        => /\ loop.outcome = "released"
           /\ \E r \in db.movies : r.title = Title(doc)

----------------------------------------------------------------------------
(* Properties of the commit cadence *)

\* C18: in the people and movie stages the cursor is never asked for a document while
\* a full batch or an uncommitted write is pending, a successful commit makes every
\* write durable, in the movie stage it is followed by a flush that empties the index
\* buffer and the cache pipeline, and a stage that ends has nothing uncommitted
C18_CommitEveryBatch ==
    /\ [](loop.batchLen <= loop.BATCH_SIZE)
    /\ [](pc \in {"m_fetch", "p_fetch"} => loop.batchLen < loop.BATCH_SIZE /\ db = durable)
    /\ [](pc = "done" => /\ db = durable /\ loop.batchLen = 0
                         /\ es.buffer = <<>> /\ redis.pipeline = <<>>)
    /\ [][pc = "m_commit" /\ pc' # "raise" => pc' = "m_flush" /\ durable' = db]_vars
    /\ [][pc = "m_flush" => /\ pc' \in {"m_fetch", "done"}
                            /\ es'.buffer = <<>> /\ redis'.pipeline = <<>>]_vars
    /\ [][pc = "p_commit" /\ pc' # "raise" => pc' \in {"p_fetch", "done"} /\ durable' = db]_vars

\* the movie stage ended after two full batches, each committed and then flushed
C18_Witness ==
    /\ pc = "done"
    /\ loop.BATCH_SIZE = 1
    /\ loop.fetched = MaxMovieDocs
    /\ Cardinality(durable.movies) = MaxMovieDocs
    /\ Cardinality(es.indexed) = MaxMovieDocs

\* C19 (as stated): never more than COMMIT_INTERVAL season documents have been
\* processed since the last commit when the loop turns to the next document
C19_IntervalCountsDocuments ==
    pc = "s_doc" => loop.docs_since_commit <= loop.COMMIT_INTERVAL

\* C19 (amended): the season stage commits as soon as COMMIT_INTERVAL season documents
\* have been written since the last commit, so never more than COMMIT_INTERVAL written
\* seasons are uncommitted, and the final commit leaves nothing uncommitted
C19_CommitEveryInterval ==
    /\ [](pc = "s_doc" /\ ~hist.commitFailed => loop.since_commit < loop.COMMIT_INTERVAL)
    /\ [](Cardinality(db.seasons \ durable.seasons) <= loop.COMMIT_INTERVAL)
    /\ [][pc = "s_commit" /\ pc' = "s_doc" => durable' = db /\ loop'.since_commit = 0]_vars
    /\ [](pc = "done" => db = durable)

\* three seasons were written with an interval of two: one commit in the loop and the
\* final commit for the third
C19_Witness ==
    /\ pc = "done"
    /\ loop.COMMIT_INTERVAL = 2
    /\ loop.inserted = 3
    /\ loop.since_commit = 1
    /\ durable.seasons # {}
    /\ ~hist.commitFailed

----------------------------------------------------------------------------
(* Properties of the trending cache *)

\* C20: with a cache client and ALWAYS_CACHE_RECENT set, every loaded movie whose year
\* is at or above TRENDING_MIN_YEAR gets a cache entry queued, whatever its rating
C20_RecentMovieQueued ==
    [][(/\ pc = "m_try" /\ redis.client /\ ALWAYS_CACHE_RECENT
        /\ loop'.outcome = "released"
        /\ doc.year # None /\ Val(doc.year) >= TRENDING_MIN_YEAR)
            => redis'.pending # redis.pending]_vars

----------------------------------------------------------------------------
(* Properties of the value normalizers *)

\* the sanitizer called on an integer returned it when it is in lo..hi and the
\* absence-marker otherwise
KeptWithin(lo, hi) ==
    loop.ret = IF lo <= doc[2] /\ doc[2] <= hi THEN doc ELSE <<"none">>

\* C21: on an integer, sanitize_year returns it when it is in 1800..2100,
\* sanitize_age_rating when it is in 0..21, sanitize_rating when it is in 0..10,
\* and each returns the absence-marker otherwise, never a bound
C21_RangeOrAbsent ==
    (pc = "v_return" /\ doc[1] = "int")
        => /\ loop.called = "sanitize_year" => KeptWithin(1800, 2100)
           /\ loop.called = "sanitize_age_rating" => KeptWithin(0, 21)
           /\ loop.called = "sanitize_rating" => KeptWithin(0, 10)

\* sanitize_year was called on 2101, one above the upper bound
C21_Witness ==
    /\ pc = "v_return"
    /\ loop.called = "sanitize_year"
    /\ doc = <<"int", 2101>>
    /\ loop.ret = <<"none">>

\* the supported encodings of a date among the values: native timestamps, ISO-8601
\* texts with or without a Z or an offset, wrappers carrying an ISO text or epoch
\* milliseconds
SupportedDates ==
    {<<"datetime", 0, None>>, <<"datetime", 0, Some(0)>>, <<"datetime", 3600, Some(3600)>>}
    \cup {<<"str", s>> : s \in {<<"1970-01-01T00:00:00">>, <<"1970-01-01T00:00:00", "Z">>,
                                <<"1970-01-01T01:00:00", "+01:00">>}}
    \cup {<<"dict", "$date", inner>> :
            inner \in {<<"str", <<"1970-01-01T00:00:00", "Z">>>>, <<"str", <<"1970-01-01T00:00:00">>>>,
                       <<"dict", "$numberLong", <<"str", <<"3", "6", "0", "0", "0", "0", "0">>>>>>,
                       <<"dict", "$numberLong", <<"int", 0>>>>}}

\* C22: on every supported encoding parse_mongo_date returns a timestamp that carries
\* an explicit offset from UTC
C22_DatesCarryOffset ==
    (pc = "v_return" /\ loop.called = "parse_mongo_date" /\ doc \in SupportedDates)
        => /\ loop.ret[1] = "datetime"
           /\ loop.ret[3] # None

\* C23: no call of a normalizer raises, whatever the shape of the value
C23_NormalizersTotal ==
    pc = "v_return" => loop.ret[1] # "raise"

----------------------------------------------------------------------------
(* Properties of the person resolver *)

\* C24: a person document that is loaded fills every null photo, birth date, death
\* date and birthplace of the stored person with the same (name, english name) for
\* which it carries a value
C24_NullFilledByLaterDocument ==
    [][(pc = "p_try" /\ loop'.outcome = "released") =>
        \A r \in db.people :
            (/\ r.name = OrElse(normalize_text(doc.name), normalize_text(doc.enName))
             /\ r.en_name = normalize_text(doc.enName))
            => \A f \in PersonFields :
                (r[f] = None /\ Incoming(doc, f) # None)
                    => \E r2 \in db'.people : r2.id = r.id /\ r2[f] = Incoming(doc, f)]_vars

----------------------------------------------------------------------------
(* Properties of the cast links and of the distributor link *)

\* the movie row written for the document at hand
Loaded == {m \in db.movies : m.title = Title(doc)}

\* the link rows of that movie
CastRows == {r \in db.movie_people : \E m \in Loaded : r.movie_id = m.id}

\* the role a profession label stands for: its lower-cased text looked up among the
\* canonical role names and their synonyms
LabelRole(label) ==
    LET l == IF normalize_text(label) = None THEN <<>>
             ELSE [i \in 1..Len(Val(normalize_text(label))) |-> Lower(Val(normalize_text(label))[i])]
    IN CASE l \in {W_operator, W_cinematographer} -> Some("cinematographer")
         [] l \in {W_designer, W_production_designer} -> Some("production_designer")
         [] l = W_actor -> Some("actor")
         [] l = W_director -> Some("director")
         [] l = W_producer -> Some("producer")
         [] l = W_writer -> Some("writer")
         [] l = W_composer -> Some("composer")
         [] l = W_editor -> Some("editor")
         [] OTHER -> None

\* row r is the link of the person reference p
LinkOf(r, p) ==
    /\ \E q \in db.people : q.id = r.person_id /\ q.name = normalize_text(p.name)
    /\ r.character_name = truncate_text(normalize_text(p.description), MaxPersonName)
    /\ r.role_id = IF LabelRole(p.enProfession) = None THEN None
                   ELSE IF Val(LabelRole(p.enProfession)) \in DOMAIN Roles
                        THEN Some(Roles[Val(LabelRole(p.enProfession))]) ELSE None

\* a movie document with a cast list has been loaded
CastLoaded == pc = "m_doc" /\ doc # NoDoc /\ doc.reject = "none" /\ loop.outcome = "released"

\* C25: the order index of every link row is the position, in the document's person
\* list, of the reference it was made from, skipped and duplicate references counted;
\* (so the indexes of the rows increase with the position of their references)
C25_OrderIsPosition ==
    CastLoaded =>
        \A r \in CastRows :
            /\ r.order_index \in 1..Len(doc.persons)
            /\ LinkOf(r, doc.persons[r.order_index])

\* a link was written for the person in third place, after a reference without a name
\* and a duplicate
C25_Witness ==
    /\ CastLoaded
    /\ Len(doc.persons) = 3
    /\ doc.persons[1].name = None
    /\ doc.persons[2].name = Some(<<"B">>)
    /\ doc.persons[3].name = Some(T_ivan)
    /\ {r.order_index : r \in CastRows} = {2, 3}

\* C26: a loaded movie has at most one link row for each (person, role, character
\* text), that row is the one of the first reference with the key, and a document
\* whose list repeats a reference is loaded without an error
C26_OneRowPerKey ==
    /\ CastLoaded =>
           \A r \in CastRows :
               /\ \A s \in CastRows :
                      (s.person_id = r.person_id /\ s.role_id = r.role_id
                          /\ s.character_name = r.character_name) => s = r
               /\ \A i \in 1..Len(doc.persons) : LinkOf(r, doc.persons[i]) => r.order_index <= i
    /\ (pc = "m_doc" /\ doc # NoDoc /\ doc.reject = "none") => loop.outcome = "released"

\* the same actor twice, the second time in another letter case and with trailing
\* blanks, after another person: one row, at the first place of the two
C26_Witness ==
    /\ CastLoaded
    /\ Len(doc.persons) = 3
    /\ doc.persons[1].name = Some(T_ivan)
    /\ doc.persons[2].name = Some(<<"B">>)
    /\ doc.persons[3].name = Some(T_ivan)
    /\ doc.persons[1] # doc.persons[3]
    /\ {r.order_index : r \in CastRows} = {1, 2}

\* the id a canonical role name has in the seeded roles table, if it has one
RoleId(name) == IF name \in DOMAIN Roles THEN Some(Roles[name]) ELSE None

W_stunt == <<"s", "t", "u", "n", "t">>

\* C27: the role of a link row is found from the lower-cased profession label of its
\* reference: operator and cinematographer give one role, designer and production
\* designer give one role, and a label that is absent or not in the table gives no
\* role, the link being written all the same with an empty role
C27_RoleFromLabel ==
    CastLoaded =>
        /\ \A r \in CastRows :
               LET label == doc.persons[r.order_index].enProfession IN
               /\ label \in {Some(<<"O">> \o Tail(W_operator)), Some(W_cinematographer)}
                      => r.role_id = RoleId("cinematographer")
               /\ label \in {Some(<<"D">> \o Tail(W_designer)), Some(W_production_designer)}
                      => r.role_id = RoleId("production_designer")
               /\ label \in {Some(<<"A">> \o Tail(W_actor)), Some(W_actor)}
                      => r.role_id = RoleId("actor")
               /\ label \in {None, Some(W_stunt)} => r.role_id = None
        /\ \A i \in 1..Len(doc.persons) :
               (doc.persons[i].name # None /\ doc.persons[i].enProfession \in {None, Some(W_stunt)})
                   => \E r \in CastRows :
                          /\ r.role_id = None
                          /\ \E q \in db.people : q.id = r.person_id
                                                    /\ q.name = normalize_text(doc.persons[i].name)

\* "Operator", "cinematographer" and "stunt" in one list: two rows, one with the
\* cinematographer role and one with no role
C27_Witness ==
    /\ CastLoaded
    /\ Len(doc.persons) = 3
    /\ doc.persons[1].enProfession = Some(<<"O">> \o Tail(W_operator))
    /\ doc.persons[2].enProfession = Some(W_cinematographer)
    /\ doc.persons[3].enProfession = Some(W_stunt)
    /\ {<<r.order_index, r.role_id>> : r \in CastRows} = {<<1, RoleId("cinematographer")>>, <<3, None>>}

\* the distributor links of the movie written for the document at hand
DistributorRows == {r \in db.movie_distributors : \E m \in Loaded : r.movie_id = m.id}

\* C28: a loaded movie whose distributor name is present has exactly one distributor
\* link, dated by the russia premiere when there is one, else by the world premiere,
\* else undated; a movie without a distributor name is loaded without an error and
\* has neither a distributor row nor a link
C28_OneDatedLink ==
    /\ (pc = "m_doc" /\ doc # NoDoc /\ doc.reject = "none") => loop.outcome = "released"
    /\ CastLoaded =>
           IF normalize_text(doc.distributor) = None
           THEN db.distributors = {} /\ db.movie_distributors = {}
           ELSE /\ Cardinality(DistributorRows) = 1
                /\ \A r \in DistributorRows :
                       /\ \E d \in db.distributors :
                              d.id = r.distributor_id /\ d.name = normalize_text(doc.distributor)
                       /\ r.release_date = IF doc.premiere_russia # None THEN doc.premiere_russia
                                           ELSE IF doc.premiere_world # None THEN doc.premiere_world
                                           ELSE None

\* a distributor and both premiere dates: the link carries the russia date
C28_Witness ==
    /\ CastLoaded
    /\ doc.distributor = Some(T_kino)
    /\ doc.premiere_russia = Some(2000)
    /\ doc.premiere_world = Some(2001)
    /\ \E r \in DistributorRows : r.release_date = Some(2000)

----------------------------------------------------------------------------
(* Properties of the season rows *)

\* C29: a season document that is written leaves a season row under the number the
\* document gives, under 1 when it gives none, and an episode row for each of its
\* episodes under the episode's own number, under 0 when it has none
C29_StoredUnderOwnNumber ==
    [][(pc = "s_try" /\ loop'.outcome = "released") =>
          \E r \in db'.seasons :
              /\ r.movie_id = Val(doc.movieId)
              /\ r.season_number = IF doc.number = None THEN 1 ELSE Val(doc.number)
              /\ \A i \in 1..Len(doc.episodes) :
                     \E e \in db'.episodes :
                         /\ e.season_id = r.id
                         /\ e.episode_number = IF doc.episodes[i].number = None THEN 0
                                               ELSE Val(doc.episodes[i].number)]_vars

\* C30: a season document written for a (movie, season number) that has a row already
\* leaves one row for the pair, the row it had, with the episode count, air date,
\* poster and description of this document; after it every (season, episode number)
\* has one episode row, and the rows of this document's episodes carry its titles
C30_SecondDocumentWins ==
    [][(/\ pc = "s_try"
        /\ loop'.outcome = "released"
        /\ \E old \in db.seasons :
               /\ old.movie_id = Val(doc.movieId)
               /\ old.season_number = IF Falsy(doc.number) THEN 1 ELSE Val(doc.number))
       => /\ Cardinality(db'.seasons) = Cardinality(db.seasons)
          /\ \A old \in db.seasons :
                 IF old.movie_id = Val(doc.movieId)
                    /\ old.season_number = IF Falsy(doc.number) THEN 1 ELSE Val(doc.number)
                 THEN /\ [old EXCEPT !.episodes_count = doc.episodesCount,
                                     !.air_date = doc.airDate,
                                     !.poster_url = normalize_text(doc.poster),
                                     !.description = normalize_text(doc.description)] \in db'.seasons
                      /\ \A i \in 1..Len(doc.episodes) :
                             \E e \in db'.episodes :
                                 /\ e.season_id = old.id
                                 /\ e.episode_number = EpisodeNumber(doc.episodes[i])
                                 /\ e.title = normalize_text(doc.episodes[i].name)
                 ELSE old \in db'.seasons
          /\ \A e, f \in db'.episodes :
                 (e.season_id = f.season_id /\ e.episode_number = f.episode_number) => e = f]_vars

\* season 2 of the movie was written twice, first with two episodes and then with other
\* values and one episode: one season row with the values of the second document,
\* episode 1 retitled, and the episode only the first document had
C30_Witness ==
    /\ pc \in {"s_doc", "s_commit"}
    /\ loop.outcome = "released"
    /\ loop.inserted = 2
    /\ \E r \in db.seasons :
           /\ db.seasons = {r}
           /\ r.season_number = 2
           /\ r.episodes_count = Some(3)
           /\ r.air_date = Some(2020)
           /\ r.poster_url = Some(<<"p">>)
           /\ r.description = Some(<<"d">>)
           /\ {<<e.episode_number, e.title>> : e \in db.episodes}
                  = {<<0, None>>, <<1, Some(<<"f">>)>>}

----------------------------------------------------------------------------
(* Properties of the run as a whole *)

\* the cursor positions 1, 2, ... in order, each once
InCursorOrder(h) == \A i \in 1..Len(h) : h[i] = i

\* C31: in each stage the documents handed to the loader are the documents the cursor
\* yielded, each once and in cursor order: inside a batch the ones not yet handed over
\* are the rest of the batch, and at every commit of a batch and at the end of the
\* stage every fetched document has been handed over
C31_EachOnceInOrder ==
    /\ InCursorOrder(loop.handled)
    /\ pc \in {"p_doc", "m_doc"} => Len(loop.handled) + (loop.batchLen - loop.idx) = loop.fetched
    /\ pc \in {"p_commit", "m_commit", "m_flush", "s_final", "done"}
           => Len(loop.handled) = loop.fetched

\* three people documents with batches of two: a full batch and the final partial batch
C31_Witness ==
    /\ pc = "done"
    /\ loop.stage = "people"
    /\ loop.BATCH_SIZE = 2
    /\ loop.handled = <<1, 2, 3>>

----------------------------------------------------------------------------
(* Properties of the search index writer *)

\* the documents waiting in the buffer of the index writer
Buffered(e) == {e.buffer[i] : i \in 1..Len(e.buffer)}

\* C32: after every step the buffer of the index writer holds fewer than ES_BULK_SIZE
\* documents; after a flush, and after the close of a failed run, it is empty; and
\* what reaches the index in a step was in the buffer or is the document indexed in
\* that step, so the documents of a failed flush are never sent again
C32_BufferBelowBulkSize ==
    [][/\ Len(es'.buffer) < ES_BULK_SIZE
       /\ pc \in {"m_flush", "raise"} =>
              /\ es'.buffer = <<>>
              /\ es'.indexed \ es.indexed \subseteq Buffered(es)
       /\ pc = "m_try" =>
              /\ Cardinality((es'.indexed \ es.indexed) \ Buffered(es)) <= 1
              /\ es'.indexed # es.indexed => es'.buffer = <<>>
       /\ pc \notin {"m_flush", "raise", "m_try"} => es' = es]_vars

\* the second movie of a batch filled the buffer and the bulk request failed: the
\* buffer is empty and neither document is in the index
C32_Witness ==
    /\ pc = "m_doc"
    /\ loop.idx = ES_BULK_SIZE
    /\ loop.inserted = ES_BULK_SIZE
    /\ Cardinality(db.movies) = ES_BULK_SIZE
    /\ es.client /\ es.tried
    /\ es.buffer = <<>>
    /\ es.indexed = {}
    /\ loop.outcome = "released"

----------------------------------------------------------------------------
(* Properties of the caches and of the savepoints *)

\* C33: between two documents every id held in a cache is the id of a row the store
\* holds under the same natural key
C33_CachedIdsExist ==
    pc \in {"m_doc", "m_fetch", "m_commit", "done"} =>
        /\ \A name \in DOMAIN cache.countries :
               \E r \in db.countries : r.id = cache.countries[name] /\ r.name = name
        /\ \A name \in DOMAIN cache.genres :
               \E r \in db.genres : r.id = cache.genres[name] /\ r.name = name
        /\ \A k \in DOMAIN cache.distributors :
               \E r \in db.distributors : r.id = cache.distributors[k]
        /\ \A k \in DOMAIN cache.persons :
               \E r \in db.people : r.id = cache.persons[k] /\ r.name = k[1] /\ r.en_name = k[2]

\* C34: a savepoint is opened only when none is open, and none is open between two
\* documents, at a commit, or when a stage ends: the savepoint of a document is
\* released, or rolled back to and released, before anything else is done
C34_OneSavepointAtATime ==
    [][/\ (pc' \in {"p_try", "m_try", "s_try"} /\ pc # pc') => (sp = None /\ sp' # None)
       /\ pc' \in {"p_doc", "m_doc", "s_doc", "p_commit", "m_commit", "s_commit", "s_final",
                   "p_fetch", "m_fetch", "m_flush", "done"} => sp' = None
       /\ durable' # durable => sp = None]_vars

\* the first movie of a batch was rolled back to its savepoint and the savepoint of the
\* second movie is open
C34_Witness ==
    /\ pc = "m_try"
    /\ loop.idx = 1
    /\ loop.skipped = 1
    /\ loop.outcome = "raised"
    /\ sp # None

----------------------------------------------------------------------------
(* Properties of the counters *)

\* C35: between two documents of a batch every document handled so far has been
\* counted once, as inserted or as skipped
C35_CountedOnce ==
    pc = "m_doc" => loop.inserted + loop.skipped = loop.idx

\* C36: a movie document counted as skipped leaves no movie row: the try block that
\* skips it leaves the movies as they were, and so does the except branch
C36_SkippedLeavesNoRow ==
    [][/\ (pc = "m_try" /\ loop'.outcome = "skipped") => db'.movies = db.movies
       /\ pc = "m_except" => db'.movies = Val(sp).movies]_vars

----------------------------------------------------------------------------
(* Properties of the distributor resolver *)

\* C37: the distributor resolver never returns one id for two different
\* (name, release name) pairs
C37_PairsKeptApart ==
    \A x, y \in hist.returned :
        (x[1] = "distributors" /\ y[1] = "distributors" /\ x[3] = y[3]) => x[2] = y[2]

----------------------------------------------------------------------------
(* Properties of the movie counters *)

\* C38: when the movie stage ends with its commits done, movies_inserted plus
\* movies_updated is the number of documents that were loaded, the documents that were
\* rolled back not being counted
C38_CountersMatchStore ==
    (pc = "done" /\ ~hist.commitFailed) =>
        stats.movies_inserted + stats.movies_updated = loop.total

\* the try block of the document at hand created a movie row under an id no row had
CreatedMovie == \E r \in db'.movies : \A q \in db.movies : q.id # r.id

\* C39: the try block of a document advances movies_inserted exactly when it created a
\* movie row, and movies_updated only when a row with the document's id was there to
\* be overwritten
C39_CountersNameTheWrite ==
    [][pc = "m_try" =>
          /\ (stats'.movies_inserted = stats.movies_inserted + 1) <=> CreatedMovie
          /\ stats'.movies_inserted \in {stats.movies_inserted, stats.movies_inserted + 1}
          /\ stats'.movies_updated # stats.movies_updated =>
                 (loop.prior # {} /\ stats'.movies_updated = stats.movies_updated + 1)]_vars

----------------------------------------------------------------------------
(* Properties of the order of the stages *)

\* C40 as stated: the movie stage starts when the people stage has handled every
\* document and committed, the season stage starts when the movie stage has done so,
\* and the movie a season document is checked against is a committed movie written by
\* the current run
C40_SeasonsSeeThisRunOnly ==
    [][/\ (pc' \in MoviePcs /\ pc \notin MoviePcs) =>
              (pc = "done" /\ loop.stage = "people" /\ Len(loop.handled) = loop.fetched
                  /\ db = durable)
       /\ (pc' \in SeasonPcs /\ pc \notin SeasonPcs) =>
              (pc = "done" /\ loop.stage = "movies" /\ Len(loop.handled) = loop.fetched
                  /\ db = durable)
       /\ pc = "s_try" =>
              \A r \in db.movies :
                  r.id = Val(doc.movieId) => (r \in durable.movies /\ r # EarlierMovie)]_vars

\* C40: the movie stage starts when the people stage has handled every document and
\* committed, the season stage starts when the movie stage has done so, and the movies
\* a season document is checked against are committed ones: those of the current run
\* and those an earlier run left in the target
C40_StagesInOrder ==
    [][/\ (pc' \in MoviePcs /\ pc \notin MoviePcs) =>
              (pc = "done" /\ loop.stage = "people" /\ Len(loop.handled) = loop.fetched
                  /\ db = durable)
       /\ (pc' \in SeasonPcs /\ pc \notin SeasonPcs) =>
              (pc = "done" /\ loop.stage = "movies" /\ Len(loop.handled) = loop.fetched
                  /\ db = durable)
       /\ pc \in SeasonPcs => db.movies = durable.movies]_vars

\* a season was written for a movie that the movie stage of this run loaded, after a
\* people stage that loaded a person
C40_Witness ==
    /\ pc = "s_doc"
    /\ loop.stage = "seasons"
    /\ loop.outcome = "released"
    /\ db.people # {}
    /\ EarlierMovie \notin db.movies
    /\ \E s \in db.seasons : s.movie_id = 1

====
